---- MODULE Spec2Model ----
(***************************************************************************)
(* Outcome predictor and population risk scoring of the digital-twin       *)
(* health dashboard (src/ml_predictions.py, src/dashboard_server_fixed.py) *)
(*                                                                         *)
(* Numbers.  A Python number is modelled by an exact rational <<n, d>>     *)
(* with d > 0 in lowest terms.  Two values that are not numbers share the  *)
(* representation with d = 0: NaN (a null cell of a numeric column) and    *)
(* Text (a cell holding non-numeric text).  The risk score of the          *)
(* population pass is accumulated in IEEE-754 binary64 and is modelled     *)
(* bit-exactly (see "binary64" below), because its comparisons with the    *)
(* thresholds depend on the rounding of each addition.                     *)
(***************************************************************************)
EXTENDS Integers, Sequences, FiniteSets, TLC

VARIABLES pc, call, out, predictor, data_cache, snapshot, served

vars == <<pc, call, out, predictor, data_cache, snapshot, served>>
\* the state shared by all calls and requests: the global predictor instance,
\* the process-wide data cache, and (for reference) the cache as load_data
\* left it and the responses sent so far
shared == <<predictor, data_cache, snapshot, served>>

(***************************************************************************)
(* Bounds of the model                                                     *)
(***************************************************************************)
MaxObs == 3
MaxMonths == 12

(***************************************************************************)
(* Exact rational arithmetic                                               *)
(***************************************************************************)
Abs(x) == IF x < 0 THEN -x ELSE x

RECURSIVE GCD(_, _)
GCD(a, b) == IF b = 0 THEN a ELSE GCD(b, a % b)

Rat(n, d) ==
    LET g == GCD(Abs(n), Abs(d))
        s == IF d < 0 THEN -1 ELSE 1
    IN  <<(s * n) \div g, (s * d) \div g>>

R(i) == <<i, 1>>
NaN == <<0, 0>>
Text == <<1, 0>>
IsNum(x) == x[2] > 0

RNeg(x) == <<-x[1], x[2]>>
RAdd(x, y) ==
    LET g == GCD(x[2], y[2])
    IN  Rat(x[1] * (y[2] \div g) + y[1] * (x[2] \div g), (x[2] \div g) * y[2])
RSub(x, y) == RAdd(x, RNeg(y))
RMul(x, y) ==
    LET Cross(a, b) == Rat(a[1] * b[1], a[2] * b[2])
    IN  Cross(Rat(x[1], y[2]), Rat(y[1], x[2]))
RDiv(x, y) == RMul(x, IF y[1] < 0 THEN <<-y[2], -y[1]>> ELSE <<y[2], y[1]>>)
RLt(x, y) == x[1] * y[2] < y[1] * x[2]
RLe(x, y) == x[1] * y[2] <= y[1] * x[2]
RAbs(x) == <<Abs(x[1]), x[2]>>
RMin(x, y) == IF RLt(y, x) THEN y ELSE x
RMax(x, y) == IF RLt(x, y) THEN y ELSE x
Dec(n, d) == Rat(n, d)

RECURSIVE RSum(_)
RSum(s) == IF s = <<>> THEN R(0) ELSE RAdd(Head(s), RSum(Tail(s)))

Floor(x) == x[1] \div x[2]

\* Python round(x, k): to the nearest multiple of 10^-k, ties to even
Pow10(k) == IF k = 0 THEN 1 ELSE IF k = 1 THEN 10 ELSE IF k = 2 THEN 100 ELSE 1000
round(x, k) ==
    LET \* f is the floor of x * 10^k, twice is 2 * its fractional part
        HalfEven(f, twice) ==
            Rat(IF RLt(R(1), twice) \/ (twice = R(1) /\ f % 2 # 0) THEN f + 1 ELSE f,
                Pow10(k))
        Scaled(s) == HalfEven(Floor(s), RSub(RMul(s, R(2)), R(2 * Floor(s))))
    IN  Scaled(RMul(x, R(Pow10(k))))

\* int(x): truncation toward zero
int(x) == IF x[1] >= 0 THEN x[1] \div x[2] ELSE -((-x[1]) \div x[2])

\* np.sqrt of a rational x >= 0, to the precision SqrtScale: the greatest
\* k / SqrtScale whose square is <= x (the exact root when it is a multiple
\* of 1 / SqrtScale; the float result differs from it by less than 1 / SqrtScale)
SqrtScale == 100
RECURSIVE ISqrtBetween(_, _, _)
ISqrtBetween(lo, hi, n) ==
    \* invariant: lo^2 <= n < hi^2
    IF hi - lo <= 1 THEN lo
    ELSE LET mid == (lo + hi) \div 2
         IN  IF mid * mid <= n THEN ISqrtBetween(mid, hi, n) ELSE ISqrtBetween(lo, mid, n)
sqrt(x) ==
    LET s2 == SqrtScale * SqrtScale
        scaled == (x[1] \div x[2]) * s2 + ((x[1] % x[2]) * s2) \div x[2]   \* floor(x * s2)
    IN  Rat(ISqrtBetween(0, 46341, scaled), SqrtScale)

\* A float quotient whose exact value has an unbounded denominator (a
\* correlation coefficient, a reciprocal) is carried to three decimals.
Quant(x) == IF x[2] > 0 THEN round(x, 3) ELSE x

(***************************************************************************)
(* Python and pandas primitives                                            *)
(***************************************************************************)
\* comparisons: any comparison with NaN is False
Lt(x, y) == IsNum(x) /\ IsNum(y) /\ RLt(x, y)
Le(x, y) == IsNum(x) /\ IsNum(y) /\ RLe(x, y)
Gt(x, y) == Lt(y, x)
Ge(x, y) == Le(y, x)
\* bool(x): zero is false, every other value (NaN included) is true
Truthy(x) == x # R(0)
\* max(a, b) keeps a unless b > a; min(a, b) keeps a unless b < a
max(a, b) == IF Gt(b, a) THEN b ELSE a
min(a, b) == IF Lt(b, a) THEN b ELSE a
\* arithmetic: NaN is absorbing (Text operands raise and never get here)
Add(x, y) == IF IsNum(x) /\ IsNum(y) THEN RAdd(x, y) ELSE NaN
Sub(x, y) == IF IsNum(x) /\ IsNum(y) THEN RSub(x, y) ELSE NaN
Mul(x, y) == IF IsNum(x) /\ IsNum(y) THEN RMul(x, y) ELSE NaN
Div(x, y) == IF IsNum(x) /\ IsNum(y) THEN RDiv(x, y) ELSE NaN

\* A DataFrame is a sequence of rows; a row (a Series) is a function from
\* the column names to the cell values; all rows have the same columns.
Columns(df) == DOMAIN df[1]
\* Series.get(key, default)
Get(row, key, default) == IF key \in DOMAIN row THEN row[key] ELSE default
\* df.iloc[-1]
iloc_last(df) == df[Len(df)]
\* df[column] as a sequence
Column(df, c) == [i \in 1..Len(df) |-> df[i][c]]

\* df.sort_values('date'): ascending, rows with equal dates keep their order
\* (numpy sorts frames this small by insertion)
RECURSIVE InsertByDate(_, _)
InsertByDate(sorted, row) ==
    IF sorted = <<>> THEN <<row>>
    ELSE LET last == sorted[Len(sorted)]
         IN  IF last["date"] <= row["date"] THEN Append(sorted, row)
             ELSE Append(InsertByDate(SubSeq(sorted, 1, Len(sorted) - 1), row), last)
\* the frame left in the order given
rows_as_given(df) == df

RECURSIVE sort_values(_)
sort_values(df) ==
    IF df = <<>> THEN <<>>
    ELSE InsertByDate(sort_values(SubSeq(df, 1, Len(df) - 1)), df[Len(df)])

SeqMin(s) == CHOOSE m \in {s[i] : i \in DOMAIN s} : \A i \in DOMAIN s : m <= s[i]

\* scipy.stats.linregress(x, y) on sequences of the same length >= 2:
\* raises on text values and when all x are identical; otherwise the least
\* squares slope, the squared correlation coefficient (the code reads rvalue
\* only as rvalue ** 2) and the standard error of the slope
Mean(s) == RDiv(RSum(s), R(Len(s)))
linregress(x, y) ==
    IF \E i \in DOMAIN y : y[i] = Text THEN [raised |-> TRUE]
    ELSE IF \A i \in DOMAIN x : x[i] = x[1] THEN [raised |-> TRUE]
    ELSE
    LET n == Len(x)
        Result(ssxm, ssym, slope, r2) ==
            [raised |-> FALSE, slope |-> slope, rvalue2 |-> Quant(r2),
             stderr |-> IF n = 2 THEN R(0)
                        ELSE sqrt(RDiv(RMul(RSub(R(1), r2), RDiv(ssym, ssxm)), R(n - 2)))]
        Fit(ssxm, ssym, ssxym) ==
            Result(ssxm, ssym, RDiv(ssxym, ssxm),
                   IF ssym = R(0) THEN R(0)
                   ELSE RMul(RDiv(ssxym, ssxm), RDiv(ssxym, ssym)))
        Moments(dx, dy) ==
            Fit(Mean([i \in 1..n |-> RMul(dx[i], dx[i])]),
                Mean([i \in 1..n |-> RMul(dy[i], dy[i])]),
                Mean([i \in 1..n |-> RMul(dx[i], dy[i])]))
        Centred(xmean, ymean) ==
            Moments([i \in 1..n |-> RSub(x[i], xmean)], [i \in 1..n |-> RSub(y[i], ymean)])
    IN  Centred(Mean(x), Mean(y))

\* Series.std(): sample standard deviation (NaN for a single value); raises
\* on a column holding text
std_raises(col) == \E i \in DOMAIN col : col[i] = Text
std(col) ==
    IF Len(col) < 2 THEN NaN
    ELSE LET SumSq(d) == RSum([i \in DOMAIN col |-> RMul(d[i], d[i])])
             Deviations(m) == SumSq([i \in DOMAIN col |-> RSub(col[i], m)])
         IN  sqrt(RDiv(Deviations(Mean(col)), R(Len(col) - 1)))

\* Python evaluates the operands of a call before the call.  The value of an
\* expression e(v) for v = a, with a evaluated first, is written
\* The({e(v) : v \in {a}}).
The(S) == CHOOSE v \in S : TRUE

\* the outcome of a call: a returned value or a raised exception
Raised == [raised |-> TRUE]
Returned(v) == [raised |-> FALSE, value |-> v]

(***************************************************************************)
(* HealthOutcomePredictor: adult blood pressure                            *)
(***************************************************************************)
\* raises KeyError without a sistol or diastol column, TypeError in std()
_extract_bp_features_raises(person_data) ==
    \/ "sistol" \notin Columns(person_data)
    \/ "diastol" \notin Columns(person_data)
    \/ std_raises(Column(person_data, "sistol"))

_extract_bp_features(person_data) ==
    LET latest == iloc_last(person_data)
    IN  [age |-> Get(latest, "age", Get(latest, "usia", R(50))),
         on_treatment |-> Get(latest, "on_treatment", R(0)),
         treatment_months |-> Get(latest, "treatment_months", R(0)),
         adherence |-> Get(latest, "adherence_current", R(0)),
         diabetes |-> Get(latest, "diabetes_koin", R(0)),
         smoking |-> Get(latest, "perokok", R(0)),
         bmi |-> Get(latest, "BMI", R(25)),
         baseline_systolic |-> person_data[1]["sistol"],
         baseline_diastolic |-> person_data[1]["diastol"],
         bp_variability |-> std(Column(person_data, "sistol")),
         data_points |-> Len(person_data)]

\* _apply_clinical_adjustments with the treatment ramp of line 248 taken over
\* 12 months instead of 6
clinical_adjustments_ramp_12(systolic, diastolic, features, months) ==
    LET Adjusted(age_adjustment, treatment_effect, diabetes_effect, smoking_effect) ==
            [systolic |->
                max(R(90), min(R(250),
                    Add(Add(Add(Add(systolic, age_adjustment), treatment_effect),
                            diabetes_effect), smoking_effect))),
             diastolic |->
                max(R(60), min(R(130),
                    Add(Add(Add(diastolic, Mul(age_adjustment, Dec(6, 10))),
                            Mul(treatment_effect, Dec(7, 10))),
                        Mul(diabetes_effect, Dec(6, 10)))))]
    IN  Adjusted(
          \* age_adjustment
          Mul(Mul(Sub(features.age, R(50)), Dec(2, 10)), R(months)),
          \* treatment_effect
          IF Truthy(features.on_treatment) /\ Gt(features.adherence, R(0))
          THEN Mul(Mul(R(-15), features.adherence),
                   min(R(1), Div(features.treatment_months, R(12))))
          ELSE R(0),
          \* diabetes_effect
          Mul(Mul(R(3), features.diabetes), R(months)),
          \* smoking_effect
          Mul(Mul(R(2), features.smoking), R(months)))

\* _apply_clinical_adjustments with the smoking effect carried over to the
\* diastolic sum of line 259
clinical_adjustments_smoking_diastolic(systolic, diastolic, features, months) ==
    LET Adjusted(age_adjustment, treatment_effect, diabetes_effect, smoking_effect) ==
            [systolic |->
                max(R(90), min(R(250),
                    Add(Add(Add(Add(systolic, age_adjustment), treatment_effect),
                            diabetes_effect), smoking_effect))),
             diastolic |->
                max(R(60), min(R(130),
                    Add(Add(Add(Add(diastolic, Mul(age_adjustment, Dec(6, 10))),
                                Mul(treatment_effect, Dec(7, 10))),
                            Mul(diabetes_effect, Dec(6, 10))),
                        Mul(smoking_effect, Dec(6, 10)))))]
    IN  Adjusted(
          Mul(Mul(Sub(features.age, R(50)), Dec(2, 10)), R(months)),
          IF Truthy(features.on_treatment) /\ Gt(features.adherence, R(0))
          THEN Mul(Mul(R(-15), features.adherence),
                   min(R(1), Div(features.treatment_months, R(6))))
          ELSE R(0),
          Mul(Mul(R(3), features.diabetes), R(months)),
          Mul(Mul(R(2), features.smoking), R(months)))

\* the adjustment with the treatment effect growing with the horizon
clinical_adjustments_treatment_by_horizon(systolic, diastolic, features, months) ==
    LET Adjusted(age_adjustment, treatment_effect, diabetes_effect, smoking_effect) ==
            [systolic |->
                max(R(90), min(R(250),
                    Add(Add(Add(Add(systolic, age_adjustment), treatment_effect),
                            diabetes_effect), smoking_effect))),
             diastolic |->
                max(R(60), min(R(130),
                    Add(Add(Add(diastolic, Mul(age_adjustment, Dec(6, 10))),
                            Mul(treatment_effect, Dec(7, 10))),
                        Mul(diabetes_effect, Dec(6, 10)))))]
    IN  Adjusted(
          Mul(Mul(Sub(features.age, R(50)), Dec(2, 10)), R(months)),
          IF Truthy(features.on_treatment) /\ Gt(features.adherence, R(0))
          THEN Mul(Mul(Mul(R(-15), features.adherence),
                       min(R(1), Div(features.treatment_months, R(6)))),
                   min(R(1), Rat(months, 6)))
          ELSE R(0),
          Mul(Mul(R(3), features.diabetes), R(months)),
          Mul(Mul(R(2), features.smoking), R(months)))

_apply_clinical_adjustments(systolic, diastolic, features, months) ==
    LET Adjusted(age_adjustment, treatment_effect, diabetes_effect, smoking_effect) ==
            [systolic |->
                max(R(90), min(R(250),
                    Add(Add(Add(Add(systolic, age_adjustment), treatment_effect),
                            diabetes_effect), smoking_effect))),
             diastolic |->
                max(R(60), min(R(130),
                    Add(Add(Add(diastolic, Mul(age_adjustment, Dec(6, 10))),
                            Mul(treatment_effect, Dec(7, 10))),
                        Mul(diabetes_effect, Dec(6, 10)))))]
    IN  Adjusted(
          \* age_adjustment
          Mul(Mul(Sub(features.age, R(50)), Dec(2, 10)), R(months)),
          \* treatment_effect
          IF Truthy(features.on_treatment) /\ Gt(features.adherence, R(0))
          THEN Mul(Mul(R(-15), features.adherence),
                   min(R(1), Div(features.treatment_months, R(6))))
          ELSE R(0),
          \* diabetes_effect
          Mul(Mul(R(3), features.diabetes), R(months)),
          \* smoking_effect
          Mul(Mul(R(2), features.smoking), R(months)))

\* _calculate_bp_confidence with the lower clamp of line 312 dropped:
\* min(1, overall_confidence)
bp_confidence_without_floor(n, sys_trend, dia_trend) ==
    min(R(1),
        Add(Add(Mul(min(R(1), Rat(n, 10)), Dec(3, 10)),
                Mul(Quant(Div(R(1), Add(Add(R(1), RAbs(sys_trend.stderr)),
                                        RAbs(dia_trend.stderr)))), Dec(3, 10))),
            Mul(Div(Add(sys_trend.rvalue2, dia_trend.rvalue2), R(2)), Dec(4, 10))))

_calculate_bp_confidence(n, sys_trend, dia_trend) ==
    LET data_confidence == min(R(1), Rat(n, 10))
        trend_confidence ==
            Quant(Div(R(1), Add(Add(R(1), RAbs(sys_trend.stderr)), RAbs(dia_trend.stderr))))
        r_squared_confidence == Div(Add(sys_trend.rvalue2, dia_trend.rvalue2), R(2))
        overall_confidence ==
            Add(Add(Mul(data_confidence, Dec(3, 10)), Mul(trend_confidence, Dec(3, 10))),
                Mul(r_squared_confidence, Dec(4, 10)))
    IN  min(R(1), max(Dec(1, 10), overall_confidence))

_get_bp_category(systolic, diastolic) ==
    IF Ge(systolic, R(180)) \/ Ge(diastolic, R(110)) THEN "Hipertensi Tahap 3 (Parah)"
    ELSE IF Ge(systolic, R(160)) \/ Ge(diastolic, R(100)) THEN "Hipertensi Tahap 2"
    ELSE IF Ge(systolic, R(140)) \/ Ge(diastolic, R(90)) THEN "Hipertensi Tahap 1"
    ELSE IF Ge(systolic, R(130)) \/ Ge(diastolic, R(85)) THEN "Tinggi Normal"
    ELSE IF Ge(systolic, R(120)) \/ Ge(diastolic, R(80)) THEN "Normal"
    ELSE "Optimal"

risk_label_map(risk_level) ==
    CASE risk_level = "very_high" -> "Sangat Tinggi"
      [] risk_level = "high" -> "Tinggi"
      [] risk_level = "moderate" -> "Sedang"
      [] risk_level = "low" -> "Rendah"

\* _assess_bp_risk without line 353 (risk_score = min(1, risk_score))
bp_risk_uncapped(prediction, features) ==
    LET systolic == prediction.systolic
        diastolic == prediction.diastolic
        Plus(score, cond, inc) == IF cond THEN Add(score, inc) ELSE score
        Scored(risk_level, base) ==
            [risk_level |-> risk_level,
             risk_label |-> risk_label_map(risk_level),
             risk_score |->
                round(Plus(Plus(Plus(base, Truthy(features.diabetes), Dec(2, 10)),
                                Truthy(features.smoking), Dec(15, 100)),
                           Gt(features.age, R(65)), Dec(1, 10)), 3),
             category |-> _get_bp_category(systolic, diastolic)]
    IN  IF Ge(systolic, R(180)) \/ Ge(diastolic, R(110)) THEN Scored("very_high", Dec(9, 10))
        ELSE IF Ge(systolic, R(160)) \/ Ge(diastolic, R(100)) THEN Scored("high", Dec(7, 10))
        ELSE IF Ge(systolic, R(140)) \/ Ge(diastolic, R(90)) THEN Scored("moderate", Dec(5, 10))
        ELSE Scored("low", Dec(2, 10))

_assess_bp_risk(prediction, features) ==
    LET systolic == prediction.systolic
        diastolic == prediction.diastolic
        Plus(score, cond, inc) == IF cond THEN Add(score, inc) ELSE score
        Scored(risk_level, base) ==
            [risk_level |-> risk_level,
             risk_label |-> risk_label_map(risk_level),
             risk_score |->
                round(min(R(1), Plus(Plus(Plus(base, Truthy(features.diabetes), Dec(2, 10)),
                                          Truthy(features.smoking), Dec(15, 100)),
                                     Gt(features.age, R(65)), Dec(1, 10))), 3),
             category |-> _get_bp_category(systolic, diastolic)]
    IN  IF Ge(systolic, R(180)) \/ Ge(diastolic, R(110)) THEN Scored("very_high", Dec(9, 10))
        ELSE IF Ge(systolic, R(160)) \/ Ge(diastolic, R(100)) THEN Scored("high", Dec(7, 10))
        ELSE IF Ge(systolic, R(140)) \/ Ge(diastolic, R(90)) THEN Scored("moderate", Dec(5, 10))
        ELSE Scored("low", Dec(2, 10))

\* the recommendations with the diabetes entries ahead of the smoking entry
bp_recommendations_diabetes_first(prediction, features) ==
    (IF Ge(prediction.systolic, R(160))
     THEN <<"Segera konsultasi medis diperlukan",
            "Pertimbangkan rawat inap jika bergejala">>
     ELSE IF Ge(prediction.systolic, R(140))
     THEN <<"Tingkatkan pengobatan antihipertensi",
            "Pantau tekanan darah setiap minggu">>
     ELSE <<>>)
    \o (IF ~Truthy(features.on_treatment) /\ Ge(prediction.systolic, R(140))
        THEN <<"Mulai pengobatan antihipertensi">> ELSE <<>>)
    \o (IF Truthy(features.diabetes)
        THEN <<"Optimalkan manajemen diabetes", "Target tekanan darah <130/80 mmHg">>
        ELSE <<>>)
    \o (IF Truthy(features.smoking)
        THEN <<"Konseling berhenti merokok - prioritas tinggi">> ELSE <<>>)
    \o (IF Lt(features.adherence, Dec(8, 10))
        THEN <<"Tingkatkan kepatuhan pengobatan melalui edukasi">> ELSE <<>>)
    \o <<"Aktivitas fisik teratur dan modifikasi pola makan">>

_generate_bp_recommendations(prediction, features) ==
    (IF Ge(prediction.systolic, R(160))
     THEN <<"Segera konsultasi medis diperlukan",
            "Pertimbangkan rawat inap jika bergejala">>
     ELSE IF Ge(prediction.systolic, R(140))
     THEN <<"Tingkatkan pengobatan antihipertensi",
            "Pantau tekanan darah setiap minggu">>
     ELSE <<>>)
    \o (IF ~Truthy(features.on_treatment) /\ Ge(prediction.systolic, R(140))
        THEN <<"Mulai pengobatan antihipertensi">> ELSE <<>>)
    \o (IF Truthy(features.smoking)
        THEN <<"Konseling berhenti merokok - prioritas tinggi">> ELSE <<>>)
    \o (IF Truthy(features.diabetes)
        THEN <<"Optimalkan manajemen diabetes", "Target tekanan darah <130/80 mmHg">>
        ELSE <<>>)
    \o (IF Lt(features.adherence, Dec(8, 10))
        THEN <<"Tingkatkan kepatuhan pengobatan melalui edukasi">> ELSE <<>>)
    \o <<"Aktivitas fisik teratur dan modifikasi pola makan">>

\* raises TypeError when a reading is text (str - int, str + float)
\* the heuristic with the drift applied whether or not the person is treated
bp_heuristic_drift_only(latest_data, months_ahead) ==
    LET current_sys == Get(latest_data, "sistol", R(140))
        current_dia == Get(latest_data, "diastol", R(90))
        Result(predicted_sys, predicted_dia) ==
          [person_id |-> Get(latest_data, "person_id", "unknown"),
           current_bp |-> [systolic |-> current_sys, diastolic |-> current_dia],
           predicted_bp |-> [systolic |-> round(predicted_sys, 1),
                             diastolic |-> round(predicted_dia, 1)],
           confidence_interval |->
               [systolic |-> <<Sub(predicted_sys, R(15)), Add(predicted_sys, R(15))>>,
                diastolic |-> <<Sub(predicted_dia, R(10)), Add(predicted_dia, R(10))>>],
           method |-> "heuristic",
           recommendations |-> <<"Disarankan pemantauan rutin",
                                 "Pertimbangkan perubahan gaya hidup">>]
    IN  IF current_sys = Text \/ current_dia = Text THEN Raised
        ELSE Returned(Result(Add(current_sys, Mul(R(months_ahead), Dec(5, 10))),
                             Add(current_dia, Mul(R(months_ahead), Dec(3, 10)))))

_predict_bp_heuristic(latest_data, months_ahead) ==
    LET current_sys == Get(latest_data, "sistol", R(140))
        current_dia == Get(latest_data, "diastol", R(90))
        on_treatment == Get(latest_data, "on_treatment", R(0))
        Result(predicted_sys, predicted_dia) ==
          [person_id |-> Get(latest_data, "person_id", "unknown"),
           current_bp |-> [systolic |-> current_sys, diastolic |-> current_dia],
           predicted_bp |-> [systolic |-> round(predicted_sys, 1),
                             diastolic |-> round(predicted_dia, 1)],
           confidence_interval |->
               [systolic |-> <<Sub(predicted_sys, R(15)), Add(predicted_sys, R(15))>>,
                diastolic |-> <<Sub(predicted_dia, R(10)), Add(predicted_dia, R(10))>>],
           method |-> "heuristic",
           recommendations |-> <<"Disarankan pemantauan rutin",
                                 "Pertimbangkan perubahan gaya hidup">>]
    IN  IF current_sys = Text \/ current_dia = Text THEN Raised
        ELSE IF Truthy(on_treatment)
        THEN Returned(Result(Sub(current_sys, R(2)), Sub(current_dia, R(1))))
        ELSE Returned(Result(Add(current_sys, Mul(R(months_ahead), Dec(5, 10))),
                             Add(current_dia, Mul(R(months_ahead), Dec(3, 10)))))

\* Date cells.  A Timestamp is its day number (day 0 is 2023-09-01).  A text
\* cell, as read_csv leaves it, is the number TextDate + k, k the position of
\* its string in DateTexts; DateTexts lists the strings in lexicographic
\* order, so <= on text cells is the comparison sort_values makes on them.
TextDate == 1000
DateTexts == <<"10/1/2023", "12/30/2023", "2023-09-01", "2023-10-01", "2023-12-30", "9/1/2023">>
\* pd.to_datetime: a text cell is parsed, a Timestamp is kept
to_datetime(cell) ==
    IF cell > TextDate
    THEN CASE DateTexts[cell - TextDate] \in {"2023-09-01", "9/1/2023"} -> 0
           [] DateTexts[cell - TextDate] \in {"2023-10-01", "10/1/2023"} -> 30
           [] DateTexts[cell - TextDate] \in {"2023-12-30", "12/30/2023"} -> 120
    ELSE cell
\* pd.to_datetime(df['date'])
to_datetime_column(df) == [i \in 1..Len(df) |-> to_datetime(df[i]["date"])]

\* days_since_start with the subtraction of line 58 reversed: dates.min() - dates
days_before_start(df) ==
    LET dates == to_datetime_column(df)
    IN  [i \in DOMAIN dates |-> R(SeqMin(dates) - dates[i])]

\* (dates - dates.min()).dt.days
days_since_start(df) ==
    LET dates == to_datetime_column(df)
    IN  [i \in DOMAIN dates |-> R(dates[i] - SeqMin(dates))]

\* the systolic trend fitted by predict_bp_progression (lines 45, 57-61) on a
\* history with a date column
fit_systolic_trend(person_data) ==
    linregress(days_since_start(sort_values(person_data)),
               Column(sort_values(person_data), "sistol"))

\* The body of the try block of predict_bp_progression (lines 44-104), by
\* stages.  Each stage yields a record: raised tells whether the block was
\* left by an exception, data is the frame bound to person_data at that
\* moment (the except clause reads it), fit tells whether linregress was
\* called, path names the return taken.
bp_fail(sorted, fit) == [raised |-> TRUE, data |-> sorted, fit |-> fit]

\* the returned dictionary (lines 78-104)
bp_result(latest, features, systolic_trend, diastolic_trend, prediction, confidence, unc) ==
    [person_id |-> latest["person_id"],
     current_bp |-> [systolic |-> latest["sistol"], diastolic |-> latest["diastol"]],
     predicted_bp |-> [systolic |-> round(prediction.systolic, 1),
                       diastolic |-> round(prediction.diastolic, 1)],
     trend_analysis |->
         [systolic_trend_per_month |-> round(Mul(systolic_trend.slope, R(30)), 2),
          diastolic_trend_per_month |-> round(Mul(diastolic_trend.slope, R(30)), 2),
          trend_confidence |-> round(confidence, 3)],
     risk_assessment |-> _assess_bp_risk(prediction, features),
     confidence_interval |->
         [systolic |-> <<round(Sub(prediction.systolic, Mul(R(10), unc)), 1),
                         round(Add(prediction.systolic, Mul(R(10), unc)), 1)>>,
          diastolic |-> <<round(Sub(prediction.diastolic, Mul(R(7), unc)), 1),
                          round(Add(prediction.diastolic, Mul(R(7), unc)), 1)>>],
     recommendations |-> _generate_bp_recommendations(prediction, features)]

\* confidence and the interval half-widths (lines 73-76, 97-100)
\* the result with the interval scaled by the confidence itself
bp_scored_by_confidence(latest, features, systolic_trend, diastolic_trend, prediction, confidence) ==
    The({bp_result(latest, features, systolic_trend, diastolic_trend, prediction,
                   confidence, unc) : unc \in {confidence}})

bp_scored(latest, features, systolic_trend, diastolic_trend, prediction, confidence) ==
    The({bp_result(latest, features, systolic_trend, diastolic_trend, prediction,
                   confidence, unc) : unc \in {Sub(R(1), confidence)}})

\* extrapolation and adjustment of the fitted trends (lines 62-76)
bp_fitted(sorted, features, systolic_trend, diastolic_trend, months_ahead) ==
    IF systolic_trend.raised \/ diastolic_trend.raised THEN bp_fail(sorted, TRUE)
    ELSE IF "person_id" \notin Columns(sorted) THEN bp_fail(sorted, TRUE)   \* KeyError
    ELSE
    [raised |-> FALSE, data |-> sorted, fit |-> TRUE, path |-> "trend",
     value |->
       The({bp_scored(iloc_last(sorted), features, systolic_trend, diastolic_trend,
                      prediction, confidence) :
              prediction \in {_apply_clinical_adjustments(
                  \* predicted_systolic, predicted_diastolic; days_future = months_ahead * 30
                  Add(iloc_last(sorted)["sistol"],
                      Mul(systolic_trend.slope, R(months_ahead * 30))),
                  Add(iloc_last(sorted)["diastol"],
                      Mul(diastolic_trend.slope, R(months_ahead * 30))),
                  features, months_ahead)},
              confidence \in {_calculate_bp_confidence(Len(sorted), systolic_trend,
                                                       diastolic_trend)}})]

\* the two regressions over the days since the first observation (lines 54-60)
bp_trends(sorted, x, months_ahead) ==
    The({bp_fitted(sorted, features,
                   linregress(x, Column(sorted, "sistol")),
                   linregress(x, Column(sorted, "diastol")),
                   months_ahead) : features \in {_extract_bp_features(sorted)}})

\* the early return with fewer than two observations (lines 47-48)
bp_short(sorted, h) ==
    IF h.raised THEN bp_fail(sorted, FALSE)
    ELSE [raised |-> FALSE, data |-> sorted, fit |-> FALSE, path |-> "short",
          value |-> h.value]

\* the try block with the length test of line 47 dropped: the regressions
\* are run whatever the number of observations
bp_sorted_without_length_test(sorted, months_ahead) ==
    IF _extract_bp_features_raises(sorted) THEN bp_fail(sorted, FALSE)
    ELSE bp_trends(sorted, days_since_start(sorted), months_ahead)

bp_sorted(sorted, months_ahead) ==
    IF Len(sorted) < 2
    THEN bp_short(sorted, _predict_bp_heuristic(iloc_last(sorted), months_ahead))
    ELSE IF _extract_bp_features_raises(sorted) THEN bp_fail(sorted, FALSE)
    ELSE bp_trends(sorted, days_since_start(sorted), months_ahead)

bp_try(person_data, months_ahead) ==
    IF "date" \notin Columns(person_data)
    THEN bp_fail(person_data, FALSE)                               \* KeyError in sort_values
    ELSE bp_sorted(sort_values(person_data), months_ahead)

\* the except clause (lines 106-110): the heuristic on the last row of
\* person_data; an exception of the clause itself reaches the caller
bp_fallback(t, h) ==
    IF h.raised
    THEN [raised |-> TRUE, data |-> t.data, fit |-> t.fit, path |-> "except"]
    ELSE [raised |-> FALSE, data |-> t.data, fit |-> t.fit, path |-> "except",
          value |-> h.value]

bp_except(t, months_ahead) ==
    IF ~t.raised THEN t
    ELSE bp_fallback(t, _predict_bp_heuristic(iloc_last(t.data), months_ahead))

predict_bp_progression(person_data, months_ahead) ==
    bp_except(bp_try(person_data, months_ahead), months_ahead)


(***************************************************************************)
(* HealthOutcomePredictor: child growth (HAZ)                              *)
(***************************************************************************)
_extract_haz_features_raises(child_data) ==
    \/ "HAZ" \notin Columns(child_data)
    \/ std_raises(Column(child_data, "HAZ"))

_extract_haz_features(child_data) ==
    LET latest == iloc_last(child_data)
    IN  [age_months |-> Get(latest, "usia_bulan", R(24)),
         on_program |-> Get(latest, "on_program", R(0)),
         program_months |-> Get(latest, "program_months", R(0)),
         hemoglobin |-> Get(latest, "anemia_hb_gdl", R(12)),
         exclusive_bf |-> Get(latest, "ASI_eksklusif", R(0)),
         complementary_feeding |-> Get(latest, "mp_asi_memadai", R(0)),
         clean_water |-> Get(latest, "air_bersih", R(0)),
         sanitation |-> Get(latest, "jamban_sehat", R(0)),
         baseline_haz |-> child_data[1]["HAZ"],
         haz_variability |-> std(Column(child_data, "HAZ")),
         data_points |-> Len(child_data)]

\* _apply_growth_adjustments with only the program effect added at line 289
growth_adjustments_program_only(haz, features, months) ==
    LET Adjusted(program_effect, water_sanitation_effect, nutrition_effect, hb_effect) ==
            [haz |-> max(R(-5), min(R(3),
                Add(haz, program_effect)))]
        Program(age_factor, program_intensity) ==
            Div(Mul(Mul(Mul(Dec(3, 10), program_intensity), age_factor), R(months)), R(6))
    IN  Adjusted(
          \* program_effect
          IF Truthy(features.on_program)
          THEN Program(max(Dec(1, 10), Sub(R(1), Div(features.age_months, R(60)))),
                       min(R(1), Div(features.program_months, R(12))))
          ELSE R(0),
          \* water_sanitation_effect
          Div(Mul(Mul(Dec(1, 10), Add(features.clean_water, features.sanitation)),
                  R(months)), R(6)),
          \* nutrition_effect
          Div(Mul(Mul(Dec(15, 100), features.complementary_feeding), R(months)), R(6)),
          \* hb_effect
          Div(Mul(Mul(Dec(1, 10), max(R(0), Div(Sub(features.hemoglobin, R(11)), R(4)))),
                  R(months)), R(6)))

\* the adjustment with every effect scaled by the age factor
growth_adjustments_age_scaled(haz, features, months) ==
    LET age_factor == max(Dec(1, 10), Sub(R(1), Div(features.age_months, R(60))))
        Scaled(effect) == Div(Mul(Mul(effect, age_factor), R(months)), R(6))
    IN  [haz |-> max(R(-5), min(R(3),
            Add(Add(Add(Add(haz,
                IF Truthy(features.on_program)
                THEN Scaled(Mul(Dec(3, 10), min(R(1), Div(features.program_months, R(12)))))
                ELSE R(0)),
                Scaled(Mul(Dec(1, 10), Add(features.clean_water, features.sanitation)))),
                Scaled(Mul(Dec(15, 100), features.complementary_feeding))),
                Scaled(Mul(Dec(1, 10), max(R(0), Div(Sub(features.hemoglobin, R(11)), R(4))))))))]

_apply_growth_adjustments(haz, features, months) ==
    LET Adjusted(program_effect, water_sanitation_effect, nutrition_effect, hb_effect) ==
            [haz |-> max(R(-5), min(R(3),
                Add(Add(Add(Add(haz, program_effect), water_sanitation_effect),
                        nutrition_effect), hb_effect)))]
        Program(age_factor, program_intensity) ==
            Div(Mul(Mul(Mul(Dec(3, 10), program_intensity), age_factor), R(months)), R(6))
    IN  Adjusted(
          \* program_effect
          IF Truthy(features.on_program)
          THEN Program(max(Dec(1, 10), Sub(R(1), Div(features.age_months, R(60)))),
                       min(R(1), Div(features.program_months, R(12))))
          ELSE R(0),
          \* water_sanitation_effect
          Div(Mul(Mul(Dec(1, 10), Add(features.clean_water, features.sanitation)),
                  R(months)), R(6)),
          \* nutrition_effect
          Div(Mul(Mul(Dec(15, 100), features.complementary_feeding), R(months)), R(6)),
          \* hb_effect
          Div(Mul(Mul(Dec(1, 10), max(R(0), Div(Sub(features.hemoglobin, R(11)), R(4)))),
                  R(months)), R(6)))

_calculate_haz_confidence(n, haz_trend) ==
    LET data_confidence == min(R(1), Rat(n, 8))
        trend_confidence == Quant(Div(R(1), Add(R(1), RAbs(haz_trend.stderr))))
        r_squared_confidence == haz_trend.rvalue2
        overall_confidence ==
            Add(Add(Mul(data_confidence, Dec(4, 10)), Mul(trend_confidence, Dec(3, 10))),
                Mul(r_squared_confidence, Dec(3, 10)))
    IN  min(R(1), max(Dec(1, 10), overall_confidence))

_assess_catch_up_potential(features) ==
    LET age_months == features.age_months
        baseline_haz == features.baseline_haz
    IN  IF Lt(age_months, R(24))
        THEN IF Gt(baseline_haz, R(-3)) THEN "high"
             ELSE IF Gt(baseline_haz, R(-4)) THEN "moderate"
             ELSE "low"
        ELSE IF Lt(age_months, R(36))
        THEN IF Gt(baseline_haz, Dec(-25, 10)) THEN "moderate" ELSE "low"
        ELSE "low"

_classify_growth_pattern(velocity) ==
    IF Gt(velocity, Dec(1, 10)) THEN "catch_up_growth"
    ELSE IF Gt(velocity, R(0)) THEN "normal_growth"
    ELSE IF Gt(velocity, Dec(-1, 10)) THEN "growth_faltering"
    ELSE "poor_growth"

_generate_haz_recommendations(prediction, features) ==
    (IF Lt(prediction.haz, R(-3))
     THEN <<"Intervensi gizi mendesak diperlukan",
            "Pertimbangkan program pemberian makan terapeutik">>
     ELSE IF Lt(prediction.haz, R(-2))
     THEN <<"Diperlukan dukungan gizi intensif", "Pantau pertumbuhan setiap bulan">>
     ELSE <<>>)
    \o (IF Lt(features.age_months, R(24))
        THEN <<"Fokus pada 1000 hari pertama - periode kritis">> ELSE <<>>)
    \o (IF ~Truthy(features.exclusive_bf) /\ Lt(features.age_months, R(6))
        THEN <<"Promosikan pemberian ASI eksklusif">> ELSE <<>>)
    \o (IF ~Truthy(features.complementary_feeding) /\ Ge(features.age_months, R(6))
        THEN <<"Perbaiki praktik pemberian makanan pendamping ASI">> ELSE <<>>)
    \o (IF Lt(features.hemoglobin, R(11))
        THEN <<"Atasi anemia dengan suplementasi zat besi">> ELSE <<>>)
    \o (IF ~Truthy(features.clean_water) \/ ~Truthy(features.sanitation)
        THEN <<"Perbaiki kondisi WASH untuk mencegah infeksi">> ELSE <<>>)
    \o (IF ~Truthy(features.on_program)
        THEN <<"Daftarkan pada program dukungan gizi">> ELSE <<>>)

\* raises ValueError in int(age_months) when the age is NaN
_predict_haz_heuristic(latest_data, months_ahead) ==
    LET current_haz == Get(latest_data, "HAZ", R(-1))
        age_months == Get(latest_data, "usia_bulan", R(24))
        on_program == Get(latest_data, "on_program", R(0))
        Result(predicted_haz) ==
          [child_id |-> Get(latest_data, "child_id", "unknown"),
           current_status |->
               [haz |-> current_haz,
                age_months |-> int(age_months),
                stunting_status |-> IF Lt(current_haz, R(-2)) THEN "stunted" ELSE "normal"],
           predicted_status |->
               [haz |-> round(predicted_haz, 2),
                age_months |-> int(Add(age_months, R(months_ahead))),
                stunting_risk |-> IF Lt(predicted_haz, R(-2)) THEN "high" ELSE "low"],
           method |-> "heuristic",
           recommendations |-> <<"Pantau pertumbuhan secara rutin",
                                 "Pastikan asupan gizi memadai">>]
    IN  IF ~IsNum(age_months) THEN Raised
        ELSE IF Truthy(on_program) /\ Lt(age_months, R(36))
        THEN Returned(Result(Add(current_haz, Mul(R(months_ahead), Dec(5, 100)))))
        ELSE Returned(Result(Sub(current_haz, Mul(R(months_ahead), Dec(2, 100)))))

\* (dates - dates.min()).dt.days / 30
months_since_start(df) ==
    LET dates == to_datetime_column(df)
    IN  [i \in DOMAIN dates |-> Rat(dates[i] - SeqMin(dates), 30)]

\* the HAZ trend fitted by predict_haz_progression (lines 119, 130-134) on a
\* history with a date column
fit_haz_trend(child_data) ==
    linregress(months_since_start(sort_values(child_data)),
               Column(sort_values(child_data), "HAZ"))

\* The body of the try block of predict_haz_progression (lines 119-170), by
\* stages, as for blood pressure.
haz_fail(sorted, fit) == [raised |-> TRUE, data |-> sorted, fit |-> fit]

\* the returned dictionary (lines 143-170)
haz_result(latest, features, haz_trend, prediction, confidence, unc, months_ahead) ==
    [child_id |-> latest["child_id"],
     current_status |->
         [haz |-> latest["HAZ"],
          age_months |-> int(latest["usia_bulan"]),
          stunting_status |-> IF Lt(latest["HAZ"], R(-2)) THEN "stunted" ELSE "normal"],
     predicted_status |->
         [haz |-> round(prediction.haz, 2),
          age_months |-> int(Add(latest["usia_bulan"], R(months_ahead))),
          stunting_risk |-> IF Lt(prediction.haz, R(-2)) THEN "high"
                            ELSE IF Lt(prediction.haz, R(-1)) THEN "medium"
                            ELSE "low"],
     growth_analysis |->
         [velocity_per_month |-> round(haz_trend.slope, 3),
          growth_pattern |-> _classify_growth_pattern(haz_trend.slope),
          catch_up_potential |-> _assess_catch_up_potential(features)],
     confidence_interval |->
         [haz_range |-> <<round(Sub(prediction.haz, Mul(Dec(5, 10), unc)), 2),
                          round(Add(prediction.haz, Mul(Dec(5, 10), unc)), 2)>>,
          confidence_score |-> round(confidence, 3)],
     recommendations |-> _generate_haz_recommendations(prediction, features)]

haz_scored(latest, features, haz_trend, prediction, confidence, months_ahead) ==
    The({haz_result(latest, features, haz_trend, prediction, confidence, unc,
                    months_ahead) : unc \in {Sub(R(1), confidence)}})

\* extrapolation and adjustment of the fitted trend (lines 133-141)
haz_fitted(sorted, features, haz_trend, months_ahead) ==
    IF haz_trend.raised THEN haz_fail(sorted, TRUE)
    ELSE IF \/ "child_id" \notin Columns(sorted)                    \* KeyError
            \/ "usia_bulan" \notin Columns(sorted)                  \* KeyError
            \/ ~IsNum(iloc_last(sorted)["usia_bulan"])              \* ValueError in int()
    THEN haz_fail(sorted, TRUE)
    ELSE
    [raised |-> FALSE, data |-> sorted, fit |-> TRUE, path |-> "trend",
     value |->
       The({haz_scored(iloc_last(sorted), features, haz_trend, prediction, confidence,
                       months_ahead) :
              prediction \in {_apply_growth_adjustments(
                  \* predicted_haz
                  Add(iloc_last(sorted)["HAZ"], Mul(haz_trend.slope, R(months_ahead))),
                  features, months_ahead)},
              confidence \in {_calculate_haz_confidence(Len(sorted), haz_trend)}})]

haz_short(sorted, h) ==
    IF h.raised THEN haz_fail(sorted, FALSE)
    ELSE [raised |-> FALSE, data |-> sorted, fit |-> FALSE, path |-> "short",
          value |-> h.value]

haz_sorted(sorted, months_ahead) ==
    IF Len(sorted) < 2
    THEN haz_short(sorted, _predict_haz_heuristic(iloc_last(sorted), months_ahead))
    ELSE IF _extract_haz_features_raises(sorted) THEN haz_fail(sorted, FALSE)
    ELSE The({haz_fitted(sorted, features,
                         linregress(months_since_start(sorted), Column(sorted, "HAZ")),
                         months_ahead) : features \in {_extract_haz_features(sorted)}})

haz_try(child_data, months_ahead) ==
    IF "date" \notin Columns(child_data)
    THEN haz_fail(child_data, FALSE)                               \* KeyError in sort_values
    ELSE haz_sorted(sort_values(child_data), months_ahead)

haz_fallback(t, h) ==
    IF h.raised
    THEN [raised |-> TRUE, data |-> t.data, fit |-> t.fit, path |-> "except"]
    ELSE [raised |-> FALSE, data |-> t.data, fit |-> t.fit, path |-> "except",
          value |-> h.value]

haz_except(t, months_ahead) ==
    IF ~t.raised THEN t
    ELSE haz_fallback(t, _predict_haz_heuristic(iloc_last(t.data), months_ahead))

predict_haz_progression(child_data, months_ahead) ==
    haz_except(haz_try(child_data, months_ahead), months_ahead)


\* predict_health_outcomes: every person_type other than 'adult' takes the
\* child branch
predict_health_outcomes(person_data, person_type, months_ahead) ==
    IF person_type = "adult"
    THEN predict_bp_progression(person_data, months_ahead)
    ELSE predict_haz_progression(person_data, months_ahead)

(***************************************************************************)
(* binary64.  The population pass accumulates risk_score with += on Python *)
(* floats and compares the sum with float thresholds.  A float near the    *)
(* decimal q / 100 is the pair <<q, e>> standing for the exact value       *)
(*     q / 100 + e / (100 * 2^56),                                         *)
(* which covers every double in [2^-4, 2) (their ulp is a multiple of      *)
(* 2^-56).  FRound rounds an exact value to the nearest double, ties to    *)
(* even, as IEEE-754 addition and the reading of a decimal literal do.     *)
(***************************************************************************)
RECURSIVE Pow2(_)
Pow2(n) == IF n = 0 THEN 1 ELSE 2 * Pow2(n - 1)
RECURSIVE Pow2Mod(_, _)
Pow2Mod(n, m) ==
    IF n = 0 THEN 1 % m
    ELSE IF n % 2 = 0 THEN LET h == Pow2Mod(n \div 2, m) IN (h * h) % m
    ELSE (2 * Pow2Mod(n - 1, m)) % m

\* the exponent k of the binade [2^k, 2^(k+1)) holding <<q, e>>, k in -4..0
FExponent(q, e) ==
    LET AtLeast(num, den) == q * den > 100 * num \/ (q * den = 100 * num /\ e >= 0)
    IN  IF AtLeast(1, 1) THEN 0
        ELSE IF AtLeast(1, 2) THEN -1
        ELSE IF AtLeast(1, 4) THEN -2
        ELSE IF AtLeast(1, 8) THEN -3
        ELSE -4

\* the nearest multiple of ulp to the value, given m, the value modulo 2 ulp
\* (both in units of 1 / (100 * 2^56)); a tie goes to the even multiple
FNearest(q, e, ulp, m) ==
    IF 2 * (m % ulp) < ulp \/ (2 * (m % ulp) = ulp /\ m < ulp)
    THEN <<q, e - (m % ulp)>>
    ELSE <<q, e - (m % ulp) + ulp>>
FRoundTo(q, e, ulp) == FNearest(q, e, ulp, (q * Pow2Mod(56, 2 * ulp) + e) % (2 * ulp))
FRound(q, e) ==
    IF q = 0 /\ e = 0 THEN <<0, 0>>
    ELSE FRoundTo(q, e, 100 * Pow2(FExponent(q, e) + 4))

\* the float written as the decimal literal q / 100
Float(q) == FRound(q, 0)
\* a + b
FAdd(a, b) == FRound(a[1] + b[1], a[2] + b[2])
\* a >= b
FGe(a, b) == a[1] > b[1] \/ (a[1] = b[1] /\ a[2] >= b[2])
\* round(a, 3): the decimal nearest to the float
FRound3(a) == Rat(a[1], 100)

(***************************************************************************)
(* Population risk (src/dashboard_server_fixed.py)                         *)
(***************************************************************************)
_get_urgent_recommendations(risk_factors, person_type) ==
    LET Has(f) == \E i \in DOMAIN risk_factors : risk_factors[i] = f
    IN  (IF Has("Severe hypertension")
         THEN <<"URGENT: Medical evaluation within 24 hours">> ELSE <<>>)
        \o (IF Has("Severe stunting")
            THEN <<"URGENT: Nutritionist consultation and therapeutic feeding">> ELSE <<>>)
        \o (IF Has("Poor adherence")
            THEN <<"Immediate adherence intervention required">> ELSE <<>>)
        \o (IF Has("Severe anemia")
            THEN <<"URGENT: Iron supplementation and medical evaluation">> ELSE <<>>)

\* risk_score += inc / 100 and risk_factors.append(name), when cond holds;
\* acc is <<risk_score, risk_factors>>
add_risk(acc, cond, inc, name) ==
    IF cond THEN <<FAdd(acc[1], Float(inc)), Append(acc[2], name)>> ELSE acc
no_risk == <<Float(0), <<>> >>

\* one iteration of the loop of _identify_high_risk_adults (lines 3289-3317):
\* the score and the factors of one person; text compared with a number
\* raises TypeError
adult_risk_raises(person) == Get(person, "sistol", R(0)) = Text

\* the loop body with the two blood-pressure tests in the wrong order: the
\* test for 140 comes first, so a severe reading scores 0.2
adult_risk_tests_swapped(person) ==
    LET sistol == Get(person, "sistol", R(0))
        bp == add_risk(no_risk, Ge(sistol, R(140)), 20, "Hypertension")
        s1 == add_risk(bp, Ge(Get(person, "age", Get(person, "usia", R(0))), R(65)),
                       20, "Advanced age")
        s2 == add_risk(s1, Truthy(Get(person, "diabetes_koin", R(0))), 30, "Diabetes")
        s3 == add_risk(s2, Truthy(Get(person, "perokok", R(0))), 20, "Smoking")
        s4 == add_risk(s3, Truthy(Get(person, "on_treatment", R(0)))
                           /\ Lt(Get(person, "adherence_current", R(1)), Dec(8, 10)),
                       20, "Poor adherence")
    IN  s4

\* the scoring with poor adherence counted whether or not the person is treated
adult_risk_adherence_alone(person) ==
    LET sistol == Get(person, "sistol", R(0))
        bp == IF Ge(sistol, R(160)) THEN add_risk(no_risk, TRUE, 40, "Severe hypertension")
              ELSE add_risk(no_risk, Ge(sistol, R(140)), 20, "Hypertension")
        s1 == add_risk(bp, Ge(Get(person, "age", Get(person, "usia", R(0))), R(65)),
                       20, "Advanced age")
        s2 == add_risk(s1, Truthy(Get(person, "diabetes_koin", R(0))), 30, "Diabetes")
        s3 == add_risk(s2, Truthy(Get(person, "perokok", R(0))), 20, "Smoking")
        s4 == add_risk(s3, Lt(Get(person, "adherence_current", R(1)), Dec(8, 10)),
                       20, "Poor adherence")
    IN  s4

adult_risk(person) ==
    LET sistol == Get(person, "sistol", R(0))
        bp == IF Ge(sistol, R(160)) THEN add_risk(no_risk, TRUE, 40, "Severe hypertension")
              ELSE add_risk(no_risk, Ge(sistol, R(140)), 20, "Hypertension")
        s1 == add_risk(bp, Ge(Get(person, "age", Get(person, "usia", R(0))), R(65)),
                       20, "Advanced age")
        s2 == add_risk(s1, Truthy(Get(person, "diabetes_koin", R(0))), 30, "Diabetes")
        s3 == add_risk(s2, Truthy(Get(person, "perokok", R(0))), 20, "Smoking")
        s4 == add_risk(s3, Truthy(Get(person, "on_treatment", R(0)))
                           /\ Lt(Get(person, "adherence_current", R(1)), Dec(8, 10)),
                       20, "Poor adherence")
    IN  s4

\* the entry appended for a person at or above the threshold (lines 3320-3327)
adult_alert(person, s) ==
    [person_id |-> person["person_id"],
     risk_score |-> FRound3(s[1]),
     risk_factors |-> s[2],
     urgency |-> IF FGe(s[1], Float(80)) THEN "high" ELSE "medium",
     current_bp |-> <<Get(person, "sistol", R(0)), Get(person, "diastol", R(0))>>,
     recommendations |-> _get_urgent_recommendations(s[2], "adult")]

RECURSIVE adult_alerts(_, _)
adult_alerts(adults_df, threshold) ==
    IF adults_df = <<>> THEN <<>>
    ELSE The({IF FGe(s[1], threshold) THEN <<adult_alert(Head(adults_df), s)>> ELSE <<>> :
                 s \in {adult_risk(Head(adults_df))}})
         \o adult_alerts(Tail(adults_df), threshold)

\* no iteration is guarded: an exception in any of them leaves the function
_identify_high_risk_adults(adults_df, threshold) ==
    IF \E i \in DOMAIN adults_df : adult_risk_raises(adults_df[i]) THEN Raised
    ELSE Returned(adult_alerts(adults_df, threshold))

\* one iteration of the loop of _identify_high_risk_children (lines 3337-3368)
child_risk_raises(child) == Get(child, "HAZ", R(0)) = Text
child_anemia_risk(acc, hb) ==
    IF Lt(hb, R(10)) THEN add_risk(acc, TRUE, 30, "Severe anemia")
    ELSE add_risk(acc, Lt(hb, R(11)), 20, "Anemia")
child_risk(child) ==
    LET haz == Get(child, "HAZ", R(0))
        s0 == IF Lt(haz, R(-3)) THEN add_risk(no_risk, TRUE, 50, "Severe stunting")
              ELSE add_risk(no_risk, Lt(haz, R(-2)), 30, "Moderate stunting")
        s1 == add_risk(s0, Lt(Get(child, "usia_bulan", R(24)), R(24)),
                       20, "Critical age period")
        s2 == child_anemia_risk(s1, Get(child, "anemia_hb_gdl", R(12)))
        s3 == add_risk(s2, ~Truthy(Get(child, "air_bersih", R(1))), 10, "No clean water")
        s4 == add_risk(s3, ~Truthy(Get(child, "jamban_sehat", R(1))), 10, "Poor sanitation")
    IN  s4

\* the entry appended for a child at or above the threshold (lines 3371-3379)
child_alert(child, s) ==
    [child_id |-> child["child_id"],
     risk_score |-> FRound3(s[1]),
     risk_factors |-> s[2],
     urgency |-> IF FGe(s[1], Float(80)) THEN "high" ELSE "medium",
     current_haz |-> Get(child, "HAZ", R(0)),
     age_months |-> Get(child, "usia_bulan", R(0)),
     recommendations |-> _get_urgent_recommendations(s[2], "child")]

RECURSIVE child_alerts(_, _)
child_alerts(children_df, threshold) ==
    IF children_df = <<>> THEN <<>>
    ELSE The({IF FGe(s[1], threshold) THEN <<child_alert(Head(children_df), s)>> ELSE <<>> :
                 s \in {child_risk(Head(children_df))}})
         \o child_alerts(Tail(children_df), threshold)

_identify_high_risk_children(children_df, threshold) ==
    IF \E i \in DOMAIN children_df : child_risk_raises(children_df[i]) THEN Raised
    ELSE Returned(child_alerts(children_df, threshold))

\* The methods the class HealthOutcomePredictor defines; a call of any other
\* attribute of the instance raises AttributeError.
Methods ==
    {"predict_bp_progression", "predict_haz_progression", "calculate_risk_scores",
     "_extract_bp_features", "_extract_haz_features", "_apply_clinical_adjustments",
     "_apply_growth_adjustments", "_calculate_bp_confidence", "_calculate_haz_confidence",
     "_assess_bp_risk", "_assess_catch_up_potential", "_predict_bp_heuristic",
     "_predict_haz_heuristic", "_get_bp_category", "_classify_growth_pattern",
     "_generate_bp_recommendations", "_generate_haz_recommendations"}

\* calculate_risk_scores: the scoring method of the population kind is looked
\* up on the instance; the AttributeError of the lookup is caught and turned
\* into an error value
calculate_risk_scores(population_data, data_type) ==
    LET method == IF data_type = "adults" THEN "_calculate_adult_risk_scores"
                  ELSE "_calculate_child_risk_scores"
    IN  IF method \notin Methods
        THEN Returned([error |-> "AttributeError"])
        ELSE Returned([summary |-> method])

calculate_population_risk_scores(population_data, data_type) ==
    calculate_risk_scores(population_data, data_type)

(***************************************************************************)
(* Inputs.  A history has 1..MaxObs rows.  The visits are monthly; the     *)
(* rows arrive in time order ("asc"), in reverse order ("desc"), all on    *)
(* one day ("same"), or the frame has no date column ("none").  The        *)
(* subject's attributes are the same in every row of a history; a column   *)
(* that is absent is absent from every row.  Cells are numbers, except     *)
(* that a systolic cell may hold text and an age in months may be NaN.     *)
(***************************************************************************)
DateShapes == {"asc", "desc", "same", "none"}
DateOf(shape, i, n) ==
    CASE shape = "asc" -> 30 * (i - 1)
      [] shape = "desc" -> 30 * (n - i)
      [] shape = "same" -> 0
      [] shape = "none" -> -1
ShapesFor(n) == IF n = 1 THEN {"asc", "none"} ELSE DateShapes

Months == {0, MaxMonths}

\* an optional column: a numeric cell, or Absent when the frame lacks it
Absent == <<0, -1>>
Col(name, v) == IF v = Absent THEN <<>> ELSE name :> v
DateCol(date) == IF date < 0 THEN <<>> ELSE "date" :> date

\* <<sistol, diastol>> readings: hypertensive, at the physiological ceiling,
\* and a malformed (text) systolic cell
BPReadings == {<<R(150), R(95)>>, <<R(250), R(130)>>, <<Text, R(95)>>}

\* subjects: tr = <<on_treatment, treatment_months, adherence_current>>, risk
\* is the value of the diabetes and smoking flags
AdultProfiles ==
    {[age |-> Absent, tr |-> <<R(0), R(0), R(1)>>, risk |-> 0],      \* untreated, no age
     [age |-> R(70), tr |-> <<R(0), R(0), R(1)>>, risk |-> 1],       \* untreated, at risk
     [age |-> Absent, tr |-> <<R(1), R(6), Absent>>, risk |-> 0],    \* treated, no adherence value
     [age |-> Absent, tr |-> <<R(1), R(6), R(1)>>, risk |-> 0],      \* treated, fully adherent
     [age |-> R(70), tr |-> <<R(1), R(3), Dec(1, 2)>>, risk |-> 0],  \* treated 3 months, half adherent
     [age |-> R(70), tr |-> <<R(1), R(6), R(1)>>, risk |-> 1]}

AdultRow(p, date, reading) ==
    [person_id |-> "P001", sistol |-> reading[1], diastol |-> reading[2],
     on_treatment |-> p.tr[1], treatment_months |-> p.tr[2],
     diabetes_koin |-> R(p.risk), perokok |-> R(p.risk)]
    @@ Col("age", p.age) @@ Col("adherence_current", p.tr[3]) @@ DateCol(date)

AdultFrames(profiles, maxn) ==
    UNION {
      {[i \in 1..n |-> AdultRow(p, DateOf(shape, i, n), rd[i])] :
          p \in profiles, rd \in [1..n -> BPReadings], shape \in ShapesFor(n)}
      : n \in 1..maxn}

\* the treated adult of the scenario: ScenarioObs monthly visits with systolic
\* constant at 150, on treatment for 6 months and fully adherent; the
\* diastolic readings are constant, rising or falling; the prediction is made
\* ScenarioMonths ahead
ScenarioObs == 6
ScenarioMonths == 6
ScenarioDiastolics ==
    {[i \in 1..ScenarioObs |-> R(d)] : d \in {80, 95, 110, 112, 125}}
    \cup {[i \in 1..ScenarioObs |-> R(70 + 5 * i)], [i \in 1..ScenarioObs |-> R(135 - 5 * i)]}
TreatedProfiles ==
    {[age |-> a, tr |-> <<R(1), R(6), R(1)>>, risk |-> k] :
        a \in {Absent, R(50), R(70)}, k \in {0, 1}}
TreatedFrames ==
    {[i \in 1..ScenarioObs |->
         AdultRow(p, DateOf(shape, i, ScenarioObs), <<R(150), dia[i]>>)] :
        p \in TreatedProfiles, dia \in ScenarioDiastolics, shape \in {"asc", "desc"}}

\* HAZ readings: at the floor, stunted, at the ceiling
HAZReadings == {R(-5), Dec(-25, 10), R(3)}

\* subjects: prog = <<on_program, program_months>>; env is the value of the
\* clean water, sanitation and complementary feeding flags; an age of NaN is
\* a null cell
ChildProfiles ==
    {[age |-> R(12), prog |-> <<R(0), R(0)>>, env |-> 0],
     [age |-> R(12), prog |-> <<R(1), R(12)>>, env |-> 1],
     [age |-> R(40), prog |-> <<R(0), R(0)>>, env |-> 1],
     [age |-> R(40), prog |-> <<R(1), R(12)>>, env |-> 0],
     [age |-> NaN, prog |-> <<R(0), R(0)>>, env |-> 0],
     [age |-> NaN, prog |-> <<R(1), R(12)>>, env |-> 1]}

ChildRow(p, date, haz) ==
    [child_id |-> "C001", HAZ |-> haz, usia_bulan |-> p.age,
     on_program |-> p.prog[1], program_months |-> p.prog[2],
     air_bersih |-> R(p.env), jamban_sehat |-> R(p.env), mp_asi_memadai |-> R(p.env),
     ASI_eksklusif |-> R(0)]
    @@ (IF p.env = 1 THEN "anemia_hb_gdl" :> R(13) ELSE <<>>) @@ DateCol(date)

ChildFrames(profiles, maxn) ==
    UNION {
      {[i \in 1..n |-> ChildRow(p, DateOf(shape, i, n), hz[i])] :
          p \in profiles, hz \in [1..n -> HAZReadings], shape \in ShapesFor(n)}
      : n \in 1..maxn}

\* the child of the scenario: aged 12 months, not on a program, 2..MaxObs
\* observations all at HAZ -2.5; env = <<air_bersih, jamban_sehat,
\* mp_asi_memadai>>, hb is the hemoglobin (Absent when not recorded)
StuntedProfiles ==
    {[env |-> <<R(w), R(t), R(f)>>, hb |-> hb] :
        w \in {0, 1}, t \in {0, 1}, f \in {0, 1}, hb \in {Absent, R(10), R(13), R(19)}}
StuntedRow(p, date) ==
    [child_id |-> "C001", HAZ |-> Dec(-25, 10), usia_bulan |-> R(12),
     on_program |-> R(0), program_months |-> R(0),
     air_bersih |-> p.env[1], jamban_sehat |-> p.env[2], mp_asi_memadai |-> p.env[3],
     ASI_eksklusif |-> R(0)]
    @@ Col("anemia_hb_gdl", p.hb) @@ DateCol(date)
StuntedFrames ==
    UNION {{[i \in 1..n |-> StuntedRow(p, DateOf(shape, i, n))] :
               p \in StuntedProfiles, shape \in DateShapes}
           : n \in 2..MaxObs}

\* histories for the trend fit: 2..MaxObs values on dates that ascend,
\* descend, coincide, or coincide in part
TrendDates(n) ==
    {[i \in 1..n |-> 30 * (i - 1)], [i \in 1..n |-> 30 * (n - i)],
     [i \in 1..n |-> 0], [i \in 1..n |-> 30 * (i \div 2)]}
TrendFrames(column, values) ==
    UNION {{[i \in 1..n |-> (column :> v[i]) @@ ("date" :> d[i])] :
               v \in [1..n -> values], d \in TrendDates(n)}
           : n \in 2..MaxObs}

\* histories handed over in two row orders: 1..MaxObs observations whose
\* dates are distinct, coincide, or are absent, and the orders of their rows
OrderShapes(n) == IF n = 1 THEN {"asc", "none"} ELSE {"asc", "same", "none"}
OrderedAdultProfiles ==
    {[age |-> Absent, tr |-> <<R(0), R(0), R(1)>>, risk |-> 0],
     [age |-> R(70), tr |-> <<R(1), R(6), R(1)>>, risk |-> 1]}
OrderedChildProfiles ==
    {[age |-> R(12), prog |-> <<R(0), R(0)>>, env |-> 0],
     [age |-> R(40), prog |-> <<R(1), R(12)>>, env |-> 1]}
OrderedAdultFrames ==
    UNION {
      {[i \in 1..n |-> AdultRow(p, DateOf(shape, i, n), rd[i])] :
          p \in OrderedAdultProfiles, rd \in [1..n -> BPReadings], shape \in OrderShapes(n)}
      : n \in 1..MaxObs}
OrderedChildFrames ==
    UNION {
      {[i \in 1..n |-> ChildRow(p, DateOf(shape, i, n), hz[i])] :
          p \in OrderedChildProfiles, hz \in [1..n -> HAZReadings], shape \in OrderShapes(n)}
      : n \in 1..MaxObs}
Orders(n) == {p \in [1..n -> 1..n] : \A i, j \in 1..n : p[i] = p[j] => i = j}
Reorder(df, p) == [i \in 1..Len(df) |-> df[p[i]]]

\* predicted pressures on and just below every tier boundary, and the
\* features _assess_bp_risk reads
TierSystolics == {R(120), Dec(1399, 10), R(140), Dec(1599, 10), R(160), Dec(1799, 10), R(180)}
TierDiastolics == {R(80), Dec(899, 10), R(90), Dec(999, 10), R(100), Dec(1099, 10), R(110)}
TierFeatures ==
    {[diabetes |-> R(d), smoking |-> R(k), age |-> a] :
        d \in {0, 1}, k \in {0, 1}, a \in {R(50), R(65), R(66), NaN}}

\* subject kinds outside the two the predictor knows
OtherKinds == {"elderly", "adults"}

\* inputs of the confidence functions: the number of observations, standard
\* errors (NaN when scipy cannot estimate one) and correlation coefficients
MaxLen == 11
StdErrs == {R(0), Dec(1, 2), R(40), NaN}
RValues == {R(-1), R(0), Dec(1, 2)}
Trends == {[raised |-> FALSE, slope |-> R(0), rvalue2 |-> RMul(r, r), stderr |-> se] :
              r \in RValues, se \in StdErrs}

\* population snapshots: the latest row of 1..MaxPop subjects
MaxPop == 2
Ids == <<"001", "002", "003", "004", "005", "006", "007", "008", "009", "010", "011", "012">>

\* <<sistol, age, diabetes_koin, flags>>: flags is the value of perokok and of
\* on_treatment (with adherence 0.5); the last subject has a text reading
AdultSubjects ==
    {[sistol |-> t[1], age |-> t[2], diabetes_koin |-> R(t[3]), perokok |-> R(t[4]),
      on_treatment |-> R(t[4]), adherence_current |-> Dec(1, 2), diastol |-> R(95)] :
        t \in {<<R(150), R(60), 0, 0>>,     \* weights 0.2
               <<R(170), R(60), 1, 0>>,     \* 0.4 + 0.3
               <<R(150), R(70), 0, 1>>,     \* 0.2 + 0.2 + 0.2 + 0.2
               <<R(150), R(60), 1, 1>>,     \* 0.2 + 0.3 + 0.2 + 0.2
               <<R(170), R(70), 1, 0>>,     \* 0.4 + 0.2 + 0.3
               <<R(170), R(70), 1, 1>>,     \* every factor
               <<R(170), R(60), 0, 0>>,     \* 0.4: severe hypertension alone
               <<R(170), R(70), 0, 0>>,     \* 0.4 + 0.2
               <<R(170), R(60), 0, 1>>,     \* 0.4 + 0.2 + 0.2
               <<Text, R(60), 0, 0>>}}

\* <<HAZ, usia_bulan, anemia_hb_gdl, air_bersih, jamban_sehat>>; the last
\* subject has a text HAZ
ChildSubjects ==
    {[HAZ |-> t[1], usia_bulan |-> t[2], anemia_hb_gdl |-> t[3],
      air_bersih |-> R(t[4]), jamban_sehat |-> R(t[5])] :
        t \in {<<R(-1), R(12), R(12), 1, 1>>,            \* weights 0.2
               <<Dec(-25, 10), R(30), Dec(105, 10), 1, 1>>,   \* 0.3 + 0.2
               <<R(-4), R(12), R(12), 1, 1>>,            \* 0.5 + 0.2
               <<R(-4), R(12), R(12), 0, 1>>,            \* 0.5 + 0.2 + 0.1
               <<Dec(-25, 10), R(30), Dec(95, 10), 0, 0>>,    \* 0.3 + 0.3 + 0.1 + 0.1
               <<R(-4), R(12), Dec(105, 10), 1, 1>>,     \* 0.5 + 0.2 + 0.2
               <<R(-4), R(12), Dec(95, 10), 1, 1>>,      \* 0.5 + 0.2 + 0.3
               <<Text, R(30), R(12), 1, 1>>}}

Snapshots(subjects, idcol) ==
    UNION {{[i \in 1..n |-> pop[i] @@ (idcol :> Ids[i])] : pop \in [1..n -> subjects]}
           : n \in 1..MaxPop}

\* the population of the scenario: ScenarioAdults adults, all with a systolic
\* reading of 160 or more, of at most two kinds of subject
ScenarioAdults == 10
SevereAdults == {a \in AdultSubjects : a.sistol # Text /\ RLe(R(160), a.sistol)}
SeverePopulations ==
    {[i \in 1..ScenarioAdults |-> (IF i <= k THEN a ELSE b) @@ ("person_id" :> Ids[i])] :
        a \in SevereAdults, b \in SevereAdults, k \in 0..ScenarioAdults}

\* adults for the scoring of one subject: systolic below, at and above the
\* two cut-offs, age either side of 65, with and without diabetes, smoking
\* and treatment, adherence not recorded, poor, or at 0.8
ScoredSubjects ==
    {[sistol |-> sys, age |-> age, diabetes_koin |-> R(d), perokok |-> R(k),
      on_treatment |-> R(t), diastol |-> R(95), person_id |-> Ids[1]]
     @@ Col("adherence_current", adh) :
        sys \in {R(139), R(140), R(159), R(160)}, age \in {R(64), R(65)},
        d \in {0, 1}, k \in {0, 1}, t \in {0, 1},
        adh \in {Absent, Dec(1, 2), Dec(8, 10)}}

\* risk thresholds the caller passes, in hundredths
Thresholds == {70, 90}

\* the early-warning window, timedelta(days=90)
RecentDays == 90

\* the CSV files: the dates are written as ISO text or as month/day/year
DateFormats == {"iso", "mdy"}
Written(format, day) ==
    CASE format = "iso" /\ day = 0 -> "2023-09-01"
      [] format = "iso" /\ day = 30 -> "2023-10-01"
      [] format = "iso" /\ day = 120 -> "2023-12-30"
      [] format = "mdy" /\ day = 0 -> "9/1/2023"
      [] format = "mdy" /\ day = 30 -> "10/1/2023"
      [] format = "mdy" /\ day = 120 -> "12/30/2023"
TextCell(text) == TextDate + (CHOOSE k \in DOMAIN DateTexts : DateTexts[k] = text)

\* df['date'] = pd.to_datetime(df['date'])
with_datetime(df) == [i \in 1..Len(df) |-> ("date" :> to_datetime(df[i]["date"])) @@ df[i]]

\* Series.mean(): null cells are skipped
mean(values) ==
    LET nums == SelectSeq(values, IsNum)
    IN  IF nums = <<>> THEN NaN ELSE RDiv(RSum(nums), R(Len(nums)))

\* the detection with the whole history as the recent window
early_warning_whole_history(df, population_type) ==
    LET dated == with_datetime(df)
        column == IF population_type = "adults" THEN "sistol" ELSE "HAZ"
        recent_avg == mean(Column(dated, column))
        overall_avg == mean(Column(dated, column))
    IN  IF df = <<>> \/ "date" \notin Columns(df)
        THEN [raised |-> FALSE, warnings |-> <<>>, df |-> df]
        ELSE IF column \notin Columns(dated)
        THEN [raised |-> FALSE, warnings |-> <<>>, df |-> dated]
        ELSE IF \E i \in DOMAIN dated : dated[i][column] = Text
        THEN [raised |-> TRUE, df |-> dated]
        ELSE IF population_type = "adults" /\ Gt(recent_avg, Add(overall_avg, R(5)))
        THEN [raised |-> FALSE, df |-> dated,
              warnings |-> <<[type |-> "increasing_blood_pressure", severity |-> "medium",
                              description |-> round(Sub(recent_avg, overall_avg), 1),
                              recommendation |->
                                  "Tinjau intervensi tingkat populasi dan kepatuhan obat"]>>]
        ELSE IF population_type # "adults" /\ Lt(recent_avg, Sub(overall_avg, Dec(2, 10)))
        THEN [raised |-> FALSE, df |-> dated,
              warnings |-> <<[type |-> "declining_growth", severity |-> "high",
                              description |-> round(Sub(overall_avg, recent_avg), 2),
                              recommendation |->
                                  "Selidiki penyebab dan perkuat program gizi segera"]>>]
        ELSE [raised |-> FALSE, warnings |-> <<>>, df |-> dated]

\* _detect_early_warning_signs: df is the frame of the caller, and line 3516
\* assigns its date column; warnings is the returned list, df the frame after
\* the call
_detect_early_warning_signs(df, population_type) ==
    LET dated == with_datetime(df)
        latest == CHOOSE d \in {dated[i]["date"] : i \in DOMAIN dated} :
                      \A i \in DOMAIN dated : dated[i]["date"] <= d
        recent_data == SelectSeq(dated, LAMBDA row : row["date"] >= latest - RecentDays)
        column == IF population_type = "adults" THEN "sistol" ELSE "HAZ"
        recent_avg == mean(Column(recent_data, column))
        overall_avg == mean(Column(dated, column))
    IN  IF df = <<>> \/ "date" \notin Columns(df)
        THEN [raised |-> FALSE, warnings |-> <<>>, df |-> df]
        ELSE IF column \notin Columns(dated)
        THEN [raised |-> FALSE, warnings |-> <<>>, df |-> dated]
        ELSE IF \E i \in DOMAIN dated : dated[i][column] = Text
        THEN [raised |-> TRUE, df |-> dated]
        ELSE IF population_type = "adults" /\ Gt(recent_avg, Add(overall_avg, R(5)))
        THEN [raised |-> FALSE, df |-> dated,
              warnings |-> <<[type |-> "increasing_blood_pressure", severity |-> "medium",
                              description |-> round(Sub(recent_avg, overall_avg), 1),
                              recommendation |->
                                  "Tinjau intervensi tingkat populasi dan kepatuhan obat"]>>]
        ELSE IF population_type # "adults" /\ Lt(recent_avg, Sub(overall_avg, Dec(2, 10)))
        THEN [raised |-> FALSE, df |-> dated,
              warnings |-> <<[type |-> "declining_growth", severity |-> "high",
                              description |-> round(Sub(overall_avg, recent_avg), 2),
                              recommendation |->
                                  "Selidiki penyebab dan perkuat program gizi segera"]>>]
        ELSE [raised |-> FALSE, warnings |-> <<>>, df |-> dated]

\* population frames for the early-warning detection: 0..MaxVisits visits on
\* the days 0, 30 and 120, dated by Timestamps or by month/day/year text, with
\* the measurement of the population (or of the other one), and frames
\* without a date column
MaxVisits == 3
WarningReadings(column) ==
    IF column = "sistol" THEN {R(140), R(150), R(160)} ELSE {R(-1), Dec(-14, 10), R(-2)}
WarningDate(format, day) == IF format = "mdy" THEN TextCell(Written(format, day)) ELSE day
WarningFrames ==
    UNION {{[i \in 1..n |-> (column :> v[i]) @@ ("date" :> WarningDate(format, d[i]))] :
               v \in [1..n -> WarningReadings(column)], d \in [1..n -> {0, 30, 120}],
               format \in {"mdy", "timestamp"}}
           \cup {[i \in 1..n |-> column :> v[i]] : v \in [1..n -> WarningReadings(column)]}
           : n \in 0..MaxVisits, column \in {"sistol", "HAZ"}}

(***************************************************************************)
(* The service: one call at a time                                         *)
(***************************************************************************)
\* HealthOutcomePredictor(): the fields __init__ sets
HealthOutcomePredictor == [scaler |-> "StandardScaler", bp_model |-> "None", haz_model |-> "None"]

NoCall == [op |-> "none"]
NoOut == [raised |-> FALSE]

Init ==
    /\ pc = "idle"
    /\ call = NoCall
    /\ out = NoOut
    /\ predictor = HealthOutcomePredictor
    /\ data_cache = <<>>
    /\ snapshot = <<>>
    /\ served = <<>>

Predict(frames, kinds) ==
    /\ pc = "idle"
    /\ \E person_data \in frames, person_type \in kinds, months_ahead \in Months :
          /\ call' = [op |-> "predict_health_outcomes", person_data |-> person_data,
                      person_type |-> person_type, months_ahead |-> months_ahead]
          /\ out' = predict_health_outcomes(person_data, person_type, months_ahead)
    /\ pc' = "done"
    /\ UNCHANGED shared

\* a prediction for one of the subjects of the scenarios, ScenarioMonths ahead
PredictScenario(frames, kind) ==
    /\ pc = "idle"
    /\ \E person_data \in frames :
          /\ call' = [op |-> "predict_health_outcomes", person_data |-> person_data,
                      person_type |-> kind, months_ahead |-> ScenarioMonths]
          /\ out' = predict_health_outcomes(person_data, kind, ScenarioMonths)
    /\ pc' = "done"
    /\ UNCHANGED shared

PredictTreatedAdult == PredictScenario(TreatedFrames, "adult")
PredictStuntedChild == PredictScenario(StuntedFrames, "child")
\* two calls of predict_health_outcomes: on a history, and on the same rows
\* in another order
PredictReordered(frames, kind) ==
    /\ pc = "idle"
    /\ \E person_data \in frames :
       \E order \in Orders(Len(person_data)) :
          /\ call' = [op |-> "predict_reordered", person_data |-> person_data,
                      reordered |-> Reorder(person_data, order),
                      person_type |-> kind, months_ahead |-> MaxMonths]
          /\ out' = [raised |-> FALSE,
                     given |-> predict_health_outcomes(person_data, kind, MaxMonths),
                     reordered |-> predict_health_outcomes(Reorder(person_data, order),
                                                           kind, MaxMonths)]
    /\ pc' = "done"
    /\ UNCHANGED shared

PredictAdultReordered == PredictReordered(OrderedAdultFrames, "adult")
PredictChildReordered == PredictReordered(OrderedChildFrames, "child")
PredictAdult == Predict(AdultFrames(AdultProfiles, MaxObs), {"adult"})
PredictChild == Predict(ChildFrames(ChildProfiles, MaxObs), {"child"})
\* a caller passing a kind that is neither 'adult' nor 'child'
PredictOtherKind ==
    Predict(AdultFrames({p \in AdultProfiles : p.risk = 0 /\ p.age = Absent}, 2)
            \cup ChildFrames({p \in ChildProfiles : p.env = 0 /\ p.age = R(12)}, 2),
            OtherKinds)

\* the trend fits of the two predictors
FitTrend(op, frames) ==
    /\ pc = "idle"
    /\ \E df \in frames :
       \E trend \in {IF op = "systolic_trend" THEN fit_systolic_trend(df)
                     ELSE fit_haz_trend(df)} :
          /\ call' = [op |-> op, df |-> df]
          /\ out' = IF trend.raised THEN Raised ELSE Returned(trend)
    /\ pc' = "done"
    /\ UNCHANGED shared

FitSystolicTrend ==
    FitTrend("systolic_trend", TrendFrames("sistol", {R(140), R(150), R(165)}))
FitHazTrend ==
    FitTrend("haz_trend", TrendFrames("HAZ", {R(-3), Dec(-25, 10), Dec(-21, 10)}))

AssessBpRisk ==
    /\ pc = "idle"
    /\ \E systolic \in TierSystolics, diastolic \in TierDiastolics, features \in TierFeatures :
          /\ call' = [op |-> "_assess_bp_risk",
                      prediction |-> [systolic |-> systolic, diastolic |-> diastolic],
                      features |-> features]
          /\ out' = Returned(_assess_bp_risk([systolic |-> systolic, diastolic |-> diastolic],
                                             features))
    /\ pc' = "done"
    /\ UNCHANGED shared

BpConfidence ==
    /\ pc = "idle"
    /\ \E n \in 2..MaxLen, sys_trend \in Trends, dia_trend \in Trends :
          /\ call' = [op |-> "_calculate_bp_confidence", n |-> n,
                      sys_trend |-> sys_trend, dia_trend |-> dia_trend]
          /\ out' = Returned(_calculate_bp_confidence(n, sys_trend, dia_trend))
    /\ pc' = "done"
    /\ UNCHANGED shared

HazConfidence ==
    /\ pc = "idle"
    /\ \E n \in 2..MaxLen, haz_trend \in Trends :
          /\ call' = [op |-> "_calculate_haz_confidence", n |-> n, haz_trend |-> haz_trend]
          /\ out' = Returned(_calculate_haz_confidence(n, haz_trend))
    /\ pc' = "done"
    /\ UNCHANGED shared

PopulationRiskScores ==
    /\ pc = "idle"
    /\ \E data_type \in {"adults", "children"} :
       \E population_data \in IF data_type = "adults"
                              THEN Snapshots(AdultSubjects, "person_id")
                              ELSE Snapshots(ChildSubjects, "child_id") :
          /\ call' = [op |-> "calculate_population_risk_scores",
                      population_data |-> population_data, data_type |-> data_type]
          /\ out' = calculate_population_risk_scores(population_data, data_type)
    /\ pc' = "done"
    /\ UNCHANGED shared

\* the pass over one adult with a threshold of 0, which lists every subject
ScoreAdult ==
    /\ pc = "idle"
    /\ \E person \in ScoredSubjects :
          /\ call' = [op |-> "_identify_high_risk_adults", df |-> <<person>>,
                      threshold |-> 0]
          /\ out' = _identify_high_risk_adults(<<person>>, Float(0))
    /\ pc' = "done"
    /\ UNCHANGED shared

HighRiskAdults ==
    /\ pc = "idle"
    /\ \E adults_df \in Snapshots(AdultSubjects, "person_id") \cup SeverePopulations,
          t \in Thresholds :
          /\ call' = [op |-> "_identify_high_risk_adults", df |-> adults_df,
                      threshold |-> t]
          /\ out' = _identify_high_risk_adults(adults_df, Float(t))
    /\ pc' = "done"
    /\ UNCHANGED shared

HighRiskChildren ==
    /\ pc = "idle"
    /\ \E children_df \in Snapshots(ChildSubjects, "child_id"), t \in Thresholds :
          /\ call' = [op |-> "_identify_high_risk_children", df |-> children_df,
                      threshold |-> t]
          /\ out' = _identify_high_risk_children(children_df, Float(t))
    /\ pc' = "done"
    /\ UNCHANGED shared

\* predictions and features for the recommendations: systolic either side of
\* 140 and 160, adherence either side of 0.8
AdviceFeatures ==
    [on_treatment : {R(0), R(1)}, smoking : {R(0), R(1)}, diabetes : {R(0), R(1)},
     adherence : {R(0), Dec(79, 100), Dec(8, 10), R(1)}]
GenerateBpRecommendations ==
    /\ pc = "idle"
    /\ \E systolic \in {Dec(1399, 10), R(140), Dec(1599, 10), R(160)},
          features \in AdviceFeatures :
          /\ call' = [op |-> "_generate_bp_recommendations",
                      prediction |-> [systolic |-> systolic, diastolic |-> R(85)],
                      features |-> features]
          /\ out' = Returned(_generate_bp_recommendations(
                                 [systolic |-> systolic, diastolic |-> R(85)], features))
    /\ pc' = "done"
    /\ UNCHANGED shared

DetectEarlyWarningSigns ==
    /\ pc = "idle"
    /\ \E df \in WarningFrames, population_type \in {"adults", "children"} :
          /\ call' = [op |-> "_detect_early_warning_signs", df |-> df,
                      population_type |-> population_type]
          /\ out' = _detect_early_warning_signs(df, population_type)
    /\ pc' = "done"
    /\ UNCHANGED shared

Return ==
    /\ pc = "done"
    /\ pc' = "idle"
    /\ call' = NoCall
    /\ out' = NoOut
    /\ UNCHANGED shared

Next ==
    \/ PredictAdult
    \/ PredictChild
    \/ PredictOtherKind
    \/ PredictTreatedAdult
    \/ PredictStuntedChild
    \/ PredictAdultReordered
    \/ PredictChildReordered
    \/ AssessBpRisk
    \/ FitSystolicTrend
    \/ FitHazTrend
    \/ BpConfidence
    \/ HazConfidence
    \/ PopulationRiskScores
    \/ HighRiskAdults
    \/ ScoreAdult
    \/ HighRiskChildren
    \/ DetectEarlyWarningSigns
    \/ GenerateBpRecommendations
    \/ Return

Spec == Init /\ [][Next]_vars

(***************************************************************************)
(* The server.  data_cache is filled once, by load_data at startup; every  *)
(* endpoint is a coroutine without an await, so a request is handled in    *)
(* one step of the event loop and concurrent requests are handled in some  *)
(* order.  served lists the responses in the order the requests were       *)
(* handled; snapshot keeps the cache as load_data left it.                 *)
(***************************************************************************)
MaxRequests == 3
\* Query defaults of the prediction endpoints
DefaultMonths == 6
DefaultThreshold == 70
DefaultPeriod == 3

\* os.getenv("API_KEY") and the bearer tokens a request may carry
API_KEY == "secret"
Keys == {"secret", "guess"}

\* adults_htn_longitudinal.csv and children_stunting_longitudinal.csv as
\* read_csv returns them: rows in file order, dates as text
AdultVisit(format, id, day, reading) ==
    ("person_id" :> id) @@ ("date" :> TextCell(Written(format, day)))
    @@ AdultRow([age |-> R(70), tr |-> <<R(0), R(0), R(1)>>, risk |-> 1], -1, reading)
AdultsCsv(format) ==
    <<AdultVisit(format, "P001", 0, <<R(140), R(90)>>),
      AdultVisit(format, "P001", 30, <<R(150), R(95)>>),
      AdultVisit(format, "P002", 120, <<R(150), R(95)>>),
      AdultVisit(format, "P001", 120, <<R(165), R(100)>>)>>
ChildVisit(format, id, day, haz) ==
    ("child_id" :> id) @@ ("date" :> TextCell(Written(format, day)))
    @@ ChildRow([age |-> R(12), prog |-> <<R(0), R(0)>>, env |-> 0], -1, haz)
ChildrenCsv(format) ==
    <<ChildVisit(format, "C001", 0, Dec(-21, 10)),
      ChildVisit(format, "C001", 30, Dec(-25, 10)),
      ChildVisit(format, "C002", 120, Dec(-25, 10)),
      ChildVisit(format, "C001", 120, R(-3))>>

\* which files can be read: the adults file, the children file, the three
\* other files
Files ==
    [format : DateFormats, adults : BOOLEAN, children : BOOLEAN, others : BOOLEAN]

\* load_data: the assignments made before an exception stay in the cache
load_data(cache, files) ==
    LET c1 == ("adults" :> AdultsCsv(files.format)) @@ cache
        c2 == ("children" :> ChildrenCsv(files.format)) @@ c1
        c3 == ("adults" :> with_datetime(c2["adults"])) @@ c2
        c4 == ("children" :> with_datetime(c3["children"])) @@ c3
    IN  IF ~files.adults THEN [ok |-> FALSE, cache |-> cache]
        ELSE IF ~files.children THEN [ok |-> FALSE, cache |-> c1]
        ELSE IF ~files.others THEN [ok |-> FALSE, cache |-> c2]
        ELSE [ok |-> TRUE, cache |-> c4]

\* data_cache.get(key, pd.DataFrame())
cache_get(cache, key) == IF key \in DOMAIN cache THEN cache[key] ELSE <<>>
\* df[df[column] == value]
rows_where(df, column, value) == SelectSeq(df, LAMBDA row : row[column] = value)
\* person_id.startswith(letter), for the identifiers requests carry
RequestIds == {"P001", "C001", "X001"}
startswith(person_id, letter) ==
    \/ letter = "P" /\ person_id \in {"P001", "P002"}
    \/ letter = "C" /\ person_id \in {"C001", "C002"}
\* df.groupby(column).last().reset_index(): one row per identifier, the last
\* in frame order, the identifiers ascending
SubjectIds == <<"C001", "C002", "P001", "P002">>
groupby_last(df, column) ==
    LET present == SelectSeq(SubjectIds, LAMBDA id : rows_where(df, column, id) # <<>>)
    IN  [k \in 1..Len(present) |-> iloc_last(rows_where(df, column, present[k]))]

\* what a handler yields: the response, the cache and the predictor after it,
\* and the history it handed to the predictor (<<>> when it made no prediction)
Responded(status, body, cache, self, history) ==
    [status |-> status, body |-> body, cache |-> cache, self |-> self, history |-> history]

\* a method call that keeps the kind of its last subject in self.scaler and
\* predicts a month further when the kind changes
predict_on_fields(self, person_data, person_type, months_ahead) ==
    [self |-> [self EXCEPT !.scaler = person_type],
     result |-> predict_health_outcomes(person_data, person_type,
                    IF self.scaler = person_type THEN months_ahead ELSE months_ahead + 1)]

\* a method call on the global instance health_predictor: the methods take
\* self and neither read nor assign one of its fields
predict_on(self, person_data, person_type, months_ahead) ==
    [self |-> self,
     result |-> predict_health_outcomes(person_data, person_type, months_ahead)]

_analyze_intervention_scenarios(scenario) ==
    [scenario |-> scenario,
     description |-> CASE scenario = "enhanced" -> "Enhanced intervention with additional support"
                       [] scenario = "minimal" -> "Minimal intervention - basic care only"
                       [] OTHER -> "Current intervention level maintained",
     impact_factor |-> CASE scenario = "enhanced" -> Dec(15, 10)
                         [] scenario = "minimal" -> Dec(5, 10)
                         [] OTHER -> R(1)]

\* GET /predictions/health-outcomes/{person_id}
get_health_outcome_predictions(cache, self, person_id, months_ahead, intervention_scenario) ==
    LET adult == startswith(person_id, "P")
        df == cache_get(cache, IF adult THEN "adults" ELSE "children")
        person_data == rows_where(df, IF adult THEN "person_id" ELSE "child_id", person_id)
        p == predict_on(self, person_data, IF adult THEN "adult" ELSE "child", months_ahead)
    IN  IF ~adult /\ ~startswith(person_id, "C")
        THEN Responded(400, "Invalid person ID format", cache, self, <<>>)
        ELSE IF df = <<>>
        THEN Responded(503, "longitudinal data not available", cache, self, <<>>)
        ELSE IF person_data = <<>>
        THEN Responded(404, "tidak ditemukan", cache, self, <<>>)
        ELSE IF p.result.raised
        THEN Responded(500, "Error generating health prediction", cache, p.self, person_data)
        ELSE Responded(200,
                       [intervention_scenario |-> intervention_scenario,
                        scenario_impact |-> _analyze_intervention_scenarios(intervention_scenario)]
                       @@ p.result.value,
                       cache, p.self, person_data)

_generate_population_interventions(high_risk_individuals, population_type) ==
    IF high_risk_individuals = <<>>
    THEN <<"Tidak ada individu berisiko tinggi yang teridentifikasi - lanjutkan pemantauan rutin">>
    ELSE IF population_type = "adults"
    THEN << <<"Tindak lanjut mendesak diperlukan untuk", Len(high_risk_individuals),
              "dewasa berisiko tinggi">>,
            "Tingkatkan manajemen obat dan dukungan kepatuhan",
            "Implementasikan skrining hipertensi berbasis komunitas",
            "Sediakan program modifikasi gaya hidup yang menargetkan kelompok berisiko tinggi">>
    ELSE << <<"Intervensi gizi mendesak diperlukan untuk", Len(high_risk_individuals),
              "anak berisiko tinggi">>,
            "Perkuat program gizi komunitas",
            "Tingkatkan infrastruktur WASH di daerah terdampak",
            "Perkuat sistem pemantauan pertumbuhan dan deteksi dini">>

\* GET /predictions/population-risk: every population_type other than
\* 'adults' takes the children branch; df is the cached frame itself
get_population_risk_predictions(cache, self, population_type, risk_threshold, time_period) ==
    LET adults == population_type = "adults"
        key == IF adults THEN "adults" ELSE "children"
        df == cache_get(cache, key)
        latest_data == groupby_last(df, IF adults THEN "person_id" ELSE "child_id")
        risk_analysis ==
            calculate_population_risk_scores(latest_data, IF adults THEN "adults" ELSE "children")
        high_risk_individuals ==
            IF adults THEN _identify_high_risk_adults(latest_data, Float(risk_threshold))
            ELSE _identify_high_risk_children(latest_data, Float(risk_threshold))
        signs == _detect_early_warning_signs(df, population_type)
        after == (key :> signs.df) @@ cache
    IN  IF df = <<>>
        THEN Responded(503, "data not available", cache, self, <<>>)
        ELSE IF risk_analysis.raised \/ high_risk_individuals.raised
        THEN Responded(500, "Error in population risk analysis", cache, self, <<>>)
        ELSE IF signs.raised
        THEN Responded(500, "Error in population risk analysis", after, self, <<>>)
        ELSE Responded(200,
                       [population_type |-> population_type,
                        analysis_parameters |->
                            [risk_threshold |-> risk_threshold,
                             time_period_months |-> time_period,
                             total_population |-> Len(latest_data)],
                        risk_stratification |-> risk_analysis.value,
                        high_risk_alerts |-> high_risk_individuals.value,
                        intervention_recommendations |->
                            _generate_population_interventions(high_risk_individuals.value,
                                                               population_type),
                        indikator_peringatan_dini |-> signs.warnings],
                       after, self, <<>>)

\* verify_api_key, the dependency of the protected endpoints
verify_api_key(credentials) == credentials = API_KEY

\* GET /auth/test (the timestamp of the body is left out)
test_authentication(cache, self, credentials) ==
    IF ~verify_api_key(credentials)
    THEN Responded(401, "Invalid API key", cache, self, <<>>)
    ELSE Responded(200, [message |-> "Authentication successful", api_key_valid |-> TRUE],
                   cache, self, <<>>)

\* the endpoint groups /auth/info lists under protected_endpoints, among the
\* endpoints of the model
protected_endpoints == {"/predictions/health-outcomes", "/predictions/population-risk",
                        "/auth/test"}

\* the requests, and the handler FastAPI routes each to
HealthRequests ==
    {[path |-> "/predictions/health-outcomes", credentials |-> "guess", person_id |-> id,
      months_ahead |-> DefaultMonths, intervention_scenario |-> "current"] :
        id \in RequestIds}
PopulationRequests ==
    {[path |-> "/predictions/population-risk", credentials |-> "guess",
      population_type |-> t, risk_threshold |-> DefaultThreshold,
      time_period |-> DefaultPeriod] : t \in {"adults", "children"}}
AuthRequests == {[path |-> "/auth/test", credentials |-> k] : k \in Keys}

route(cache, self, request) ==
    CASE request.path = "/predictions/health-outcomes" ->
             get_health_outcome_predictions(cache, self, request.person_id,
                                            request.months_ahead,
                                            request.intervention_scenario)
      [] request.path = "/predictions/population-risk" ->
             get_population_risk_predictions(cache, self, request.population_type,
                                             request.risk_threshold, request.time_period)
      [] request.path = "/auth/test" ->
             test_authentication(cache, self, request.credentials)

ServerInit ==
    /\ pc = "startup"
    /\ call = NoCall
    /\ out = NoOut
    /\ predictor = HealthOutcomePredictor
    /\ data_cache = <<>>
    /\ snapshot = <<>>
    /\ served = <<>>

\* startup_event: load_data, whose failure is only reported
startup_event ==
    /\ pc = "startup"
    /\ \E files \in Files :
          /\ data_cache' = load_data(data_cache, files).cache
          /\ snapshot' = load_data(data_cache, files).cache
    /\ pc' = "serving"
    /\ UNCHANGED <<call, out, predictor, served>>

\* one request handled from its arrival to its response
Handle(requests) ==
    /\ pc = "serving"
    /\ Len(served) < MaxRequests
    /\ \E request \in requests :
          \E r \in {route(data_cache, predictor, request)} :
             /\ served' = Append(served, [request |-> request, status |-> r.status,
                                          body |-> r.body, history |-> r.history])
             /\ data_cache' = r.cache
             /\ predictor' = r.self
    /\ UNCHANGED <<pc, call, out, snapshot>>

HealthOutcomes == Handle(HealthRequests)
PopulationRisk == Handle(PopulationRequests)
AuthTest == Handle(AuthRequests)

ServerNext ==
    \/ startup_event
    \/ HealthOutcomes
    \/ PopulationRisk
    \/ AuthTest

ServerSpec == ServerInit /\ [][ServerNext]_vars

(***************************************************************************)
(* Properties                                                              *)
(***************************************************************************)
\* a call of predict_health_outcomes has been made and has ended
Predicted == pc = "done" /\ call.op = "predict_health_outcomes"
KnownKind == call.person_type \in {"adult", "child"}
Between(lo, x, hi) == Le(lo, x) /\ Le(x, hi)

\* C1: every prediction returned by predict_health_outcomes has its predicted
\* systolic in [90, 250] and diastolic in [60, 130] (adult), its predicted HAZ
\* in [-5, 3] (child), on the trend path and on the heuristic path alike.
C1_PredictionClamped ==
    (Predicted /\ KnownKind /\ ~out.raised) =>
        IF call.person_type = "adult"
        THEN /\ Between(R(90), out.value.predicted_bp.systolic, R(250))
             /\ Between(R(60), out.value.predicted_bp.diastolic, R(130))
        ELSE Between(R(-5), out.value.predicted_status.haz, R(3))

\* C2: for every non-empty history, predict_bp_progression and
\* predict_haz_progression return a prediction and never raise to the caller.
C2_NeverRaises == (Predicted /\ KnownKind) => ~out.raised

\* the returned prediction carries method = 'heuristic'
Tagged == "method" \in DOMAIN out.value /\ out.value.method = "heuristic"
\* all observations of the history carry the same date
SameDates(df) == \A i \in DOMAIN df : df[i]["date"] = df[1]["date"]

\* C3: a returned prediction carries method = 'heuristic' exactly when the
\* fallback produced it, that is when the history has fewer than 2
\* observations or the trend computation failed (a degenerate regression over
\* identical dates, a frame without dates); with fewer than 2 observations no
\* trend fit is attempted; a trend-based prediction carries no such tag.
C3_HeuristicTagIffFallback ==
    (Predicted /\ ~out.raised) =>
        /\ Tagged <=> out.path \in {"short", "except"}
        /\ Len(call.person_data) < 2 => (~out.fit /\ Tagged)
        /\ ("date" \notin Columns(call.person_data) \/ SameDates(call.person_data)) => Tagged
        /\ out.path = "trend" => (out.fit /\ "method" \notin DOMAIN out.value)

\* C3 witness: a history of at least 2 observations whose regression was
\* attempted and failed, answered by the tagged heuristic prediction
C3_Witness ==
    /\ Predicted /\ ~out.raised
    /\ Len(call.person_data) >= 2 /\ out.fit /\ out.path = "except" /\ Tagged

\* C4: predict_health_outcomes called with a subject kind other than 'adult'
\* or 'child' surfaces an error to the caller instead of a prediction.
C4_UnknownKindSurfaced ==
    (Predicted /\ ~KnownKind) => (out.raised \/ "error" \in DOMAIN out.value)

\* the frame with column c set to v in the rows that lack it
WithDefault(df, c, v) == [i \in DOMAIN df |-> df[i] @@ (c :> v)]

\* C5: a trend-based adult prediction over a history without an adherence
\* value (without an age value) is the prediction for the same history with
\* adherence 1.0 (with age 50).
C5_DocumentedDefaults ==
    (Predicted /\ call.person_type = "adult" /\ ~out.raised /\ out.path = "trend") =>
        out.value =
            predict_bp_progression(
                WithDefault(WithDefault(call.person_data, "adherence_current", R(1)),
                            "age", R(50)),
                call.months_ahead).value

\* a call of one of the two confidence functions has ended
ConfidenceComputed ==
    pc = "done" /\ call.op \in {"_calculate_bp_confidence", "_calculate_haz_confidence"}

\* C6: for at least 2 observations, any standard errors and any correlation
\* coefficients in [-1, 1], the confidence computed by _calculate_bp_confidence
\* and by _calculate_haz_confidence lies in [0.1, 1.0].
C6_ConfidenceInRange == ConfidenceComputed => Between(Dec(1, 10), out.value, R(1))

\* C6 witness: a blood pressure confidence whose weighted sum is below the
\* floor (2 observations, large standard errors, no correlation)
C6_Witness ==
    /\ ConfidenceComputed /\ call.op = "_calculate_bp_confidence"
    /\ call.n = 2 /\ call.sys_trend.stderr = R(40) /\ call.dia_trend.stderr = R(40)
    /\ call.sys_trend.rvalue2 = R(0) /\ call.dia_trend.rvalue2 = R(0)
    /\ out.value = Dec(1, 10)

\* C7: every prediction returned by predict_health_outcomes, trend-based or
\* heuristic, adult or child, contains the predicted values, a confidence
\* score, a confidence interval, a risk classification and recommendations.
C7_PredictionComplete ==
    (Predicted /\ KnownKind /\ ~out.raised) =>
        /\ {"confidence_interval", "recommendations"} \subseteq DOMAIN out.value
        /\ IF call.person_type = "adult"
           THEN /\ {"predicted_bp", "trend_analysis", "risk_assessment"}
                       \subseteq DOMAIN out.value
                /\ "trend_confidence" \in DOMAIN out.value.trend_analysis
                /\ "risk_level" \in DOMAIN out.value.risk_assessment
           ELSE /\ "predicted_status" \in DOMAIN out.value
                /\ {"haz", "stunting_risk"} \subseteq DOMAIN out.value.predicted_status
                /\ "confidence_score" \in DOMAIN out.value.confidence_interval

\* C8: for a non-empty population snapshot and data_type 'adults' or
\* 'children', calculate_population_risk_scores returns a risk summary and not
\* an error value.
C8_PopulationSummary ==
    (pc = "done" /\ call.op = "calculate_population_risk_scores") =>
        (~out.raised /\ "error" \notin DOMAIN out.value)

\* a call of one of the two population passes has ended
Scanned ==
    pc = "done" /\ call.op \in {"_identify_high_risk_adults", "_identify_high_risk_children"}

\* C9: a malformed record in the snapshot does not abort the population pass:
\* the pass returns its list of alerts.
C9_MalformedRecordTolerated == Scanned => ~out.raised

\* the total risk score of a row, in hundredths: the sum of the weights of
\* its risk factors
TotalScore(row) ==
    IF call.op = "_identify_high_risk_adults" THEN adult_risk(row)[1][1]
    ELSE child_risk(row)[1][1]
IdOf(row) ==
    IF call.op = "_identify_high_risk_adults" THEN row["person_id"] ELSE row["child_id"]
AtThreshold(row) == TotalScore(row) >= call.threshold

\* C10: a subject is listed if and only if its total risk score is >= the
\* threshold, once and in snapshot order, and a listed subject has urgency
\* 'high' if its score is >= 0.8 and 'medium' otherwise.
C10_AlertsMatchScores ==
    (Scanned /\ ~out.raised) =>
        /\ [k \in DOMAIN out.value |-> IdOf(out.value[k])]
               = [k \in DOMAIN SelectSeq(call.df, AtThreshold) |->
                      IdOf(SelectSeq(call.df, AtThreshold)[k])]
        /\ \A k \in DOMAIN out.value :
              out.value[k].urgency =
                  IF RLe(Dec(8, 10), out.value[k].risk_score) THEN "high" ELSE "medium"

\* the scenario of C11: a pass over adults who all have a systolic reading of
\* 160 or more, with threshold 0.7
AllSevere ==
    /\ Scanned /\ call.op = "_identify_high_risk_adults" /\ call.threshold = 70
    /\ \A i \in DOMAIN call.df : call.df[i].sistol # Text /\ RLe(R(160), call.df[i].sistol)
ListedIds == [k \in DOMAIN out.value |-> out.value[k].person_id]

\* C11 as stated: of ScenarioAdults adults who all have systolic >= 160, all
\* appear in the alerts when the threshold is 0.7.
C11_AllSevereListed ==
    (AllSevere /\ Len(call.df) = ScenarioAdults) =>
        (~out.raised /\ ListedIds = [i \in DOMAIN call.df |-> call.df[i].person_id])

\* the factors that bring a severe reading (0.4) to 0.7: diabetes (0.3), or
\* two of advanced age, smoking and poor adherence (0.2 each)
Count(b) == IF b THEN 1 ELSE 0
FurtherFactors(row) ==
    \/ Truthy(row.diabetes_koin)
    \/ Count(Ge(row.age, R(65))) + Count(Truthy(row.perokok))
         + Count(Truthy(row.on_treatment) /\ Lt(row.adherence_current, Dec(8, 10))) >= 2

\* C11, amended: of adults who all have systolic >= 160, exactly those with
\* diabetes or with two of the other factors appear in the alerts at
\* threshold 0.7, in snapshot order; severe hypertension alone (0.4) does not
\* reach the threshold.
C11_SevereListedWithFurtherFactors ==
    AllSevere =>
        /\ ~out.raised
        /\ ListedIds = [k \in DOMAIN SelectSeq(call.df, FurtherFactors) |->
                            SelectSeq(call.df, FurtherFactors)[k].person_id]
C11_Witness ==
    /\ AllSevere /\ Len(call.df) = ScenarioAdults /\ ~out.raised
    /\ Len(out.value) = ScenarioAdults - 1
    /\ ~FurtherFactors(call.df[1])

\* the scenario of C12: the 6-month prediction for an adult with ScenarioObs
\* monthly observations, systolic constant at 150, on treatment for 6 months
\* with adherence 1.0, to whom no age, diabetes or smoking term applies
Latest == iloc_last(sort_values(call.person_data))
TreatedScenario ==
    /\ Predicted /\ call.person_type = "adult" /\ call.months_ahead = ScenarioMonths
    /\ Len(call.person_data) = ScenarioObs
    /\ \A i \in DOMAIN call.person_data :
          /\ call.person_data[i].sistol = R(150)
          /\ \A j \in DOMAIN call.person_data :
                i # j => call.person_data[i]["date"] # call.person_data[j]["date"]
    /\ Latest.on_treatment = R(1) /\ Latest.treatment_months = R(6)
    /\ Get(Latest, "adherence_current", Absent) = R(1)
    /\ Get(Latest, "age", R(50)) = R(50)
    /\ Latest.diabetes_koin = R(0) /\ Latest.perokok = R(0)

\* C12 as stated: the predicted systolic is 135 and the risk tier is 'low' or
\* 'moderate', whatever the diastolic readings.
C12_TreatedNeverHighRisk ==
    TreatedScenario =>
        /\ ~out.raised /\ out.path = "trend"
        /\ out.value.predicted_bp.systolic = R(135)
        /\ out.value.risk_assessment.risk_level \in {"low", "moderate"}

\* C12, amended: the predicted systolic is 135 (150 - 15), and the risk tier
\* follows the predicted diastolic: 'low' or 'moderate' when it is below 100,
\* 'high' or 'very_high' when it is above 100.
C12_TreatedTierFollowsDiastolic ==
    TreatedScenario =>
        /\ ~out.raised /\ out.path = "trend"
        /\ out.value.predicted_bp.systolic = R(135)
        /\ RLt(out.value.predicted_bp.diastolic, R(100))
              => out.value.risk_assessment.risk_level \in {"low", "moderate"}
        /\ RLt(R(100), out.value.predicted_bp.diastolic)
              => out.value.risk_assessment.risk_level \in {"high", "very_high"}
C12_Witness ==
    /\ TreatedScenario /\ ~out.raised
    /\ out.value.predicted_bp.systolic = R(135)
    /\ out.value.predicted_bp.diastolic = Dec(1145, 10)
    /\ out.value.risk_assessment.risk_level = "very_high"

\* the scenario of C13: the 6-month prediction for a child aged 12 months,
\* not on a program, with at least 2 observations all at HAZ -2.5
StuntedScenario ==
    /\ Predicted /\ call.person_type = "child" /\ call.months_ahead = ScenarioMonths
    /\ Len(call.person_data) >= 2
    /\ \A i \in DOMAIN call.person_data :
          /\ call.person_data[i].HAZ = Dec(-25, 10)
          /\ call.person_data[i].usia_bulan = R(12)
          /\ call.person_data[i].on_program = R(0)
PredictedHAZ == out.value.predicted_status.haz

NoEnvironmentTerm(row) ==
    /\ row.air_bersih = R(0) /\ row.jamban_sehat = R(0) /\ row.mp_asi_memadai = R(0)
    /\ "anemia_hb_gdl" \in DOMAIN row /\ RLe(row.anemia_hb_gdl, R(11))

TrendFitted == pc = "done" /\ call.op \in {"systolic_trend", "haz_trend"} /\ ~out.raised
Values ==
    Column(sort_values(call.df), IF call.op = "systolic_trend" THEN "sistol" ELSE "HAZ")
Rising(v) == \A i \in 1..(Len(v) - 1) : RLe(v[i], v[i + 1])
Falling(v) == \A i \in 1..(Len(v) - 1) : RLe(v[i + 1], v[i])
Sign(x) == IF x[1] > 0 THEN 1 ELSE IF x[1] < 0 THEN -1 ELSE 0

\* C17: when the values are monotonic in time order, the sign of the fitted
\* slope is the sign of (last value - first value).
C17_SlopeSignOfMonotonic ==
    (TrendFitted /\ (Rising(Values) \/ Falling(Values))) =>
        Sign(out.value.slope) = Sign(RSub(Values[Len(Values)], Values[1]))
C17_Witness ==
    /\ TrendFitted /\ Falling(Values) /\ Len(Values) = 3
    /\ call.df[1]["date"] > call.df[3]["date"]
    /\ Sign(out.value.slope) = -1

\* a history was predicted in two row orders
Reordered == pc = "done" /\ call.op = "predict_reordered"
Dated(df) == "date" \in Columns(df)
DistinctDates(df) ==
    Dated(df) /\ \A i, j \in DOMAIN df : df[i]["date"] = df[j]["date"] => i = j
\* what the caller sees of a prediction
Seen(r) == IF r.raised THEN Raised ELSE Returned(r.value)
\* the 'current' value reported by r is the reading of row
CurrentOf(r, row) ==
    IF call.person_type = "adult"
    THEN r.value.current_bp = [systolic |-> row["sistol"], diastolic |-> row["diastol"]]
    ELSE r.value.current_status.haz = row["HAZ"]
\* r, predicted from df, reports as 'current' an observation of df with the
\* greatest timestamp
CurrentIsLatest(r, df) ==
    ~r.raised =>
        \E i \in DOMAIN df :
            /\ \A j \in DOMAIN df : df[j]["date"] <= df[i]["date"]
            /\ CurrentOf(r, df[i])

\* C18 (as stated): whatever the order of the rows, the 'current' observation
\* is one with the greatest timestamp, and the prediction is the same for
\* every permutation of the rows.
C18_SameForEveryOrder ==
    Reordered =>
        /\ Dated(call.person_data) =>
              /\ CurrentIsLatest(out.given, call.person_data)
              /\ CurrentIsLatest(out.reordered, call.reordered)
        /\ Seen(out.given) = Seen(out.reordered)

\* C18 (amended): in a history whose rows carry timestamps the 'current'
\* observation is one with the greatest timestamp on every path; when the
\* timestamps are pairwise distinct the prediction is the same for every
\* permutation of the rows.
C18_SameForEveryOrderOfDistinctDates ==
    (Reordered /\ Dated(call.person_data)) =>
        /\ CurrentIsLatest(out.given, call.person_data)
        /\ CurrentIsLatest(out.reordered, call.reordered)
        /\ DistinctDates(call.person_data) => Seen(out.given) = Seen(out.reordered)
\* three observations with distinct dates handed over latest first, a text
\* cell among the earlier ones: the fallback reports the latest as current
C18_Witness ==
    /\ Reordered /\ DistinctDates(call.person_data) /\ Len(call.person_data) = 3
    /\ call.reordered[1]["date"] > call.reordered[3]["date"]
    /\ ~out.reordered.raised /\ out.reordered.path = "except"
    /\ call.reordered # call.person_data
    /\ Seen(out.given) = Seen(out.reordered)

\* a blood-pressure risk was assessed
Assessed == pc = "done" /\ call.op = "_assess_bp_risk"
\* the tier of a predicted pressure and its base score
TierOf(p) ==
    IF RLe(R(180), p.systolic) \/ RLe(R(110), p.diastolic) THEN "very_high"
    ELSE IF RLe(R(160), p.systolic) \/ RLe(R(100), p.diastolic) THEN "high"
    ELSE IF RLe(R(140), p.systolic) \/ RLe(R(90), p.diastolic) THEN "moderate"
    ELSE "low"
BaseOf(tier) ==
    CASE tier = "very_high" -> Dec(9, 10)
      [] tier = "high" -> Dec(7, 10)
      [] tier = "moderate" -> Dec(5, 10)
      [] tier = "low" -> Dec(2, 10)
\* base plus 0.2 if diabetic, 0.15 if smoker, 0.1 if older than 65
Increased(base, f) ==
    RSum(<<base,
           IF f.diabetes = R(1) THEN Dec(2, 10) ELSE R(0),
           IF f.smoking = R(1) THEN Dec(15, 100) ELSE R(0),
           IF IsNum(f.age) /\ RLt(R(65), f.age) THEN Dec(1, 10) ELSE R(0)>>)

\* C20: _assess_bp_risk reports very_high / high / moderate / low by the
\* thresholds 180/110, 160/100, 140/90 on the predicted pressures; the score
\* is the tier's base (0.9, 0.7, 0.5, 0.2) plus 0.2 if diabetic, 0.15 if
\* smoker, 0.1 if age > 65, capped at 1.0; it lies in [0.2, 1.0] and is never
\* below the base of the reported tier.
C20_TierAndScore ==
    Assessed =>
        /\ out.value.risk_level = TierOf(call.prediction)
        /\ out.value.risk_score =
              RMin(R(1), Increased(BaseOf(out.value.risk_level), call.features))
        /\ RLe(Dec(2, 10), out.value.risk_score) /\ RLe(out.value.risk_score, R(1))
        /\ RLe(BaseOf(out.value.risk_level), out.value.risk_score)
\* a high-tier smoker with diabetes: 0.7 + 0.2 + 0.15 is capped at 1.0
C20_Witness ==
    /\ Assessed /\ out.value.risk_level = "high"
    /\ RLt(R(1), Increased(Dec(7, 10), call.features))
    /\ out.value.risk_score = R(1)

\* the requests handled so far, by position in served
Handled == DOMAIN served
IsPrediction(i) == served[i].request.path = "/predictions/health-outcomes"
\* the i-th request reached the predictor
Predicting(i) == IsPrediction(i) /\ served[i].history # <<>>
\* two requests handed the predictor identical arguments
SameArguments(i, j) ==
    /\ Predicting(i) /\ Predicting(j)
    /\ served[i].history = served[j].history
    /\ startswith(served[i].request.person_id, "P")
           = startswith(served[j].request.person_id, "P")
    /\ served[i].request.months_ahead = served[j].request.months_ahead

C15_SharedStateUnchanged ==
    pc = "serving" => data_cache = snapshot /\ predictor = HealthOutcomePredictor

\* what the client sees of a response
Response(r) == [status |-> r.status, body |-> r.body]
\* the response to a request handled alone, right after startup
Alone(request) == Response(route(snapshot, HealthOutcomePredictor, request))

\* C16: in every order of handling, every request gets the response it would
\* get when handled alone over the same data.
C16_SameAsAlone == \A i \in Handled : Response(served[i]) = Alone(served[i].request)

\* C19: a request to an endpoint that /auth/info lists as protected, made
\* without the valid API key, is answered 401 and no prediction or scoring is
\* made for it.
C19_ProtectedRejectsWithoutKey ==
    \A i \in Handled :
        (served[i].request.path \in protected_endpoints
             /\ ~verify_api_key(served[i].request.credentials))
        => served[i].status = 401 /\ served[i].history = <<>>

\* a trend-based adult prediction was returned
TrendAdult ==
    Predicted /\ call.person_type = "adult" /\ ~out.raised /\ out.path = "trend"
Clamp(lo, x, hi) == RMax(lo, RMin(hi, x))
\* slope per day * 30 * months of a measurement of the history h (in time
\* order), x the days since its first observation
Extrapolated(h, x, column) ==
    RMul(linregress(x, Column(h, column)).slope, R(30 * call.months_ahead))
\* the terms for the subject whose latest observation is row
AgeTerm(row) ==
    RMul(RMul(Dec(2, 10), RSub(Get(row, "age", R(50)), R(50))), R(call.months_ahead))
TreatmentTerm(row) ==
    IF Get(row, "on_treatment", R(0)) # R(0)
    THEN RMul(RMul(R(-15), Get(row, "adherence_current", R(0))),
              RMin(R(1), RDiv(Get(row, "treatment_months", R(0)), R(6))))
    ELSE R(0)
DiabetesTerm(row) == RMul(RMul(R(3), Get(row, "diabetes_koin", R(0))), R(call.months_ahead))
SmokingTerm(row) == RMul(RMul(R(2), Get(row, "perokok", R(0))), R(call.months_ahead))
SystolicSum(h, x, row) ==
    RSum(<<row["sistol"], Extrapolated(h, x, "sistol"), AgeTerm(row), TreatmentTerm(row),
           DiabetesTerm(row), SmokingTerm(row)>>)
DiastolicSum(h, x, row) ==
    RSum(<<row["diastol"], Extrapolated(h, x, "diastol"), RMul(Dec(6, 10), AgeTerm(row)),
           RMul(Dec(7, 10), TreatmentTerm(row)), RMul(Dec(6, 10), DiabetesTerm(row))>>)

\* C21: the trend-based adult prediction is, before clamping, the latest
\* reading + slope * 30 * months + 0.2*(age-50)*months + T + 3*diabetes*months
\* + 2*smoking*months for systolic and the latest reading + slope * 30 * months
\* + 0.6 * age term + 0.7 * T + 0.6 * diabetes term for diastolic, with
\* T = -15 * adherence * min(1, treatment_months/6) on treatment and 0 otherwise;
\* the reported value is that sum clamped to [90, 250] / [60, 130] and rounded
\* to one decimal.
C21_AdditiveAdjustments ==
    TrendAdult =>
        \A h \in {sort_values(call.person_data)} :
        \A x \in {days_since_start(h)} :
        \A sys \in {SystolicSum(h, x, iloc_last(h))}, dia \in {DiastolicSum(h, x, iloc_last(h))} :
            /\ out.value.predicted_bp.systolic = round(Clamp(R(90), sys, R(250)), 1)
            /\ out.value.predicted_bp.diastolic = round(Clamp(R(60), dia, R(130)), 1)
\* a treated smoker with diabetes, older than 50, with neither sum clamped
C21_Witness ==
    /\ TrendAdult
    /\ \E h \in {sort_values(call.person_data)} :
       \E x \in {days_since_start(h)}, row \in {iloc_last(h)} :
       \E sys \in {SystolicSum(h, x, row)}, dia \in {DiastolicSum(h, x, row)} :
          /\ TreatmentTerm(row) # R(0) /\ AgeTerm(row) # R(0)
          /\ SmokingTerm(row) # R(0) /\ DiabetesTerm(row) # R(0)
          /\ Clamp(R(90), sys, R(250)) = sys
          /\ Clamp(R(60), dia, R(130)) = dia

TrendChild ==
    Predicted /\ call.person_type = "child" /\ ~out.raised /\ out.path = "trend"
\* the terms for the child whose latest observation is row, each over a
\* horizon of months_ahead / 6
PerHalfYear(effect) == RDiv(RMul(effect, R(call.months_ahead)), R(6))
AgeFactor(row) == RMax(Dec(1, 10), RSub(R(1), RDiv(Get(row, "usia_bulan", R(24)), R(60))))
ProgramIntensity(row) ==
    IF Get(row, "on_program", R(0)) # R(0)
    THEN RMul(Dec(3, 10), RMin(R(1), RDiv(Get(row, "program_months", R(0)), R(12))))
    ELSE R(0)
WaterSanitation(row) ==
    RMul(Dec(1, 10), RAdd(Get(row, "air_bersih", R(0)), Get(row, "jamban_sehat", R(0))))
Feeding(row) == RMul(Dec(15, 100), Get(row, "mp_asi_memadai", R(0)))
Hemoglobin(row) ==
    RMul(Dec(1, 10), RMax(R(0), RDiv(RSub(Get(row, "anemia_hb_gdl", R(12)), R(11)), R(4))))
HazTrendTerm(h, x) == RMul(linregress(x, Column(h, "HAZ")).slope, R(call.months_ahead))
\* the sum with the age factor on the program effect alone
HazSum(h, x, row) ==
    RSum(<<row["HAZ"], HazTrendTerm(h, x),
           PerHalfYear(RMul(ProgramIntensity(row), AgeFactor(row))),
           PerHalfYear(WaterSanitation(row)), PerHalfYear(Feeding(row)),
           PerHalfYear(Hemoglobin(row))>>)
\* the sum with the age factor on every positive effect
HazSumAgeScaled(h, x, row) ==
    RSum(<<row["HAZ"], HazTrendTerm(h, x),
           PerHalfYear(RMul(ProgramIntensity(row), AgeFactor(row))),
           PerHalfYear(RMul(WaterSanitation(row), AgeFactor(row))),
           PerHalfYear(RMul(Feeding(row), AgeFactor(row))),
           PerHalfYear(RMul(Hemoglobin(row), AgeFactor(row)))>>)

\* C22 as stated: the child prediction is, before clamping, the latest HAZ +
\* slope * months + program + water/sanitation + feeding + hemoglobin effects,
\* and the age factor shrinks every one of the positive effects
C22_AgeFactorOnEveryEffect ==
    TrendChild =>
        \A h \in {sort_values(call.person_data)} :
        \A x \in {months_since_start(h)} :
        \A haz \in {HazSumAgeScaled(h, x, iloc_last(h))} :
            out.value.predicted_status.haz = round(Clamp(R(-5), haz, R(3)), 2)
\* C22: the trend-based child prediction is, before clamping, the latest HAZ +
\* slope * months + 0.3 * min(1, program_months/12) * age_factor * months/6 on
\* a program + 0.1 * (clean_water + sanitation) * months/6 + 0.15 * feeding *
\* months/6 + 0.1 * max(0, (hb - 11)/4) * months/6, with age_factor =
\* max(0.1, 1 - age_months/60) on the program effect only; the reported value
\* is that sum clamped to [-5, 3] and rounded to two decimals.
C22_GrowthSum ==
    TrendChild =>
        \A h \in {sort_values(call.person_data)} :
        \A x \in {months_since_start(h)} :
        \A haz \in {HazSum(h, x, iloc_last(h))} :
            out.value.predicted_status.haz = round(Clamp(R(-5), haz, R(3)), 2)
\* a child on a program with clean water, feeding and hemoglobin effects, an
\* age factor below 1, ahead of the latest observation, the sum not clamped
C22_Witness ==
    /\ TrendChild
    /\ call.months_ahead > 0
    /\ \E h \in {sort_values(call.person_data)} :
       \E x \in {months_since_start(h)}, row \in {iloc_last(h)} :
       \E haz \in {HazSum(h, x, row)} :
          /\ ProgramIntensity(row) # R(0) /\ WaterSanitation(row) # R(0)
          /\ Feeding(row) # R(0) /\ Hemoglobin(row) # R(0)
          /\ RLt(AgeFactor(row), R(1))
          /\ Clamp(R(-5), haz, R(3)) = haz

\* the interval <<lo, hi>> is the value p -/+ the half-width, each end rounded
\* to k decimals; it contains the reported value, its half-width is at most
\* cap and its ends lie less than 2 * band apart
Around(interval, p, halfwidth, k, cap, band) ==
    /\ interval = <<round(RSub(p, halfwidth), k), round(RAdd(p, halfwidth), k)>>
    /\ RLe(interval[1], round(p, k)) /\ RLe(round(p, k), interval[2])
    /\ RLe(halfwidth, cap)
    /\ RLe(RSub(interval[2], interval[1]), RMul(R(2), cap))
    /\ RLt(RSub(interval[2], interval[1]), RMul(R(2), band))
Uncertainty(confidence) == RSub(R(1), confidence)
BpConfidenceOf(h, x) ==
    _calculate_bp_confidence(Len(h), linregress(x, Column(h, "sistol")),
                             linregress(x, Column(h, "diastol")))
HazConfidenceOf(h, x) == _calculate_haz_confidence(Len(h), linregress(x, Column(h, "HAZ")))

\* C23: the confidence interval of a trend-based prediction is the predicted
\* value -/+ 10 * (1 - confidence) for systolic, 7 * (1 - confidence) for
\* diastolic and 0.5 * (1 - confidence) for HAZ, its ends rounded like the
\* predicted value; it contains the predicted value, the half-width is at most
\* 9 mmHg, 6.3 mmHg and 0.45, and the adult intervals are narrower than the
\* +/-15 and +/-10 of the heuristic fallback.
C23_IntervalAroundPrediction ==
    /\ TrendAdult =>
        \A h \in {sort_values(call.person_data)} :
        \A x \in {days_since_start(h)} :
        \A unc \in {Uncertainty(BpConfidenceOf(h, x))} :
        \A sys \in {Clamp(R(90), SystolicSum(h, x, iloc_last(h)), R(250))},
           dia \in {Clamp(R(60), DiastolicSum(h, x, iloc_last(h)), R(130))} :
            /\ Around(out.value.confidence_interval.systolic, sys, RMul(R(10), unc), 1,
                      R(9), R(15))
            /\ Around(out.value.confidence_interval.diastolic, dia, RMul(R(7), unc), 1,
                      Dec(63, 10), R(10))
            /\ out.value.predicted_bp = [systolic |-> round(sys, 1), diastolic |-> round(dia, 1)]
    /\ TrendChild =>
        \A h \in {sort_values(call.person_data)} :
        \A x \in {months_since_start(h)} :
        \A unc \in {Uncertainty(HazConfidenceOf(h, x))} :
        \A haz \in {Clamp(R(-5), HazSum(h, x, iloc_last(h)), R(3))} :
            /\ Around(out.value.confidence_interval.haz_range, haz, RMul(Dec(5, 10), unc), 2,
                      Dec(45, 100), R(1))
            /\ out.value.predicted_status.haz = round(haz, 2)
\* an adult prediction with a confidence strictly between the floor and 1, so
\* that the interval is neither a point nor at its widest
C23_Witness ==
    /\ TrendAdult
    /\ \E h \in {sort_values(call.person_data)} :
       \E x \in {days_since_start(h)} :
       \E unc \in {Uncertainty(BpConfidenceOf(h, x))} :
          /\ RLt(R(0), unc) /\ RLt(unc, Dec(9, 10))
          /\ RLt(out.value.confidence_interval.systolic[1], out.value.predicted_bp.systolic)
          /\ RLt(out.value.predicted_bp.systolic, out.value.confidence_interval.systolic[2])

HeuristicAdult ==
    Predicted /\ call.person_type = "adult" /\ ~out.raised /\ out.path # "trend"
\* the row the heuristic was given
HeuristicRow == iloc_last(out.data)
OnTreatment(row) == Get(row, "on_treatment", R(0)) # R(0)
HeuristicSystolic(row) ==
    IF OnTreatment(row) THEN RSub(row["sistol"], R(2))
    ELSE RAdd(row["sistol"], RMul(Dec(5, 10), R(call.months_ahead)))
HeuristicDiastolic(row) ==
    IF OnTreatment(row) THEN RSub(row["diastol"], R(1))
    ELSE RAdd(row["diastol"], RMul(Dec(3, 10), R(call.months_ahead)))
Band(p, width) == <<RSub(p, width), RAdd(p, width)>>

\* C24: the adult heuristic predicts, for a person on treatment, the latest
\* systolic - 2 and the latest diastolic - 1 whatever months_ahead is, and
\* otherwise the latest systolic + 0.5 * months and the latest diastolic +
\* 0.3 * months; its confidence interval is the predicted value +/-15 for
\* systolic and +/-10 for diastolic.
C24_HeuristicAdult ==
    HeuristicAdult =>
        \A row \in {HeuristicRow} :
        \A sys \in {HeuristicSystolic(row)}, dia \in {HeuristicDiastolic(row)} :
            /\ out.value.method = "heuristic"
            /\ out.value.predicted_bp = [systolic |-> round(sys, 1), diastolic |-> round(dia, 1)]
            /\ out.value.confidence_interval =
                   [systolic |-> Band(sys, R(15)), diastolic |-> Band(dia, R(10))]
\* a treated person predicted ahead of the latest reading
C24_Witness ==
    /\ HeuristicAdult
    /\ OnTreatment(HeuristicRow)
    /\ call.months_ahead = MaxMonths
    /\ out.value.predicted_bp.systolic = RSub(HeuristicRow["sistol"], R(2))

AdultsScanned == pc = "done" /\ call.op = "_identify_high_risk_adults" /\ ~out.raised
\* the person an alert is about
PersonOf(alert) == CHOOSE i \in DOMAIN call.df : call.df[i].person_id = alert.person_id
\* the increments of a person as <<weight, name>>, in the order of the code
PoorAdherence(person) ==
    /\ Get(person, "on_treatment", R(0)) # R(0)
    /\ RLt(Get(person, "adherence_current", R(1)), Dec(8, 10))
Increments(person) ==
    (IF RLe(R(160), person.sistol) THEN << <<Dec(4, 10), "Severe hypertension">> >>
     ELSE IF RLe(R(140), person.sistol) THEN << <<Dec(2, 10), "Hypertension">> >> ELSE <<>>)
    \o (IF RLe(R(65), person.age) THEN << <<Dec(2, 10), "Advanced age">> >> ELSE <<>>)
    \o (IF person.diabetes_koin # R(0) THEN << <<Dec(3, 10), "Diabetes">> >> ELSE <<>>)
    \o (IF person.perokok # R(0) THEN << <<Dec(2, 10), "Smoking">> >> ELSE <<>>)
    \o (IF PoorAdherence(person) THEN << <<Dec(2, 10), "Poor adherence">> >> ELSE <<>>)

\* C25: the risk score of an adult in the population pass is the sum of 0.4
\* for systolic >= 160, else 0.2 for systolic >= 140, 0.2 for age >= 65, 0.3
\* for diabetes, 0.2 for smoking and 0.2 for being on treatment with
\* adherence below 0.8, and risk_factors names exactly the increments applied,
\* in that order.
C25_ScoreIsSumOfIncrements ==
    AdultsScanned =>
        \A k \in DOMAIN out.value :
        \A inc \in {Increments(call.df[PersonOf(out.value[k])])} :
            /\ out.value[k].risk_score = RSum([i \in DOMAIN inc |-> inc[i][1]])
            /\ out.value[k].risk_factors = [i \in DOMAIN inc |-> inc[i][2]]
\* a listed smoker with adherence 0.5 who is not on treatment, next to whom
\* poor adherence is not counted
C25_Witness ==
    /\ AdultsScanned
    /\ \E k \in DOMAIN out.value :
       \E person \in {call.df[PersonOf(out.value[k])]} :
          /\ person.on_treatment = R(0) /\ person.perokok # R(0)
          /\ Get(person, "adherence_current", R(1)) = Dec(1, 2)
          /\ out.value[k].risk_factors = <<"Hypertension", "Smoking">>
          /\ out.value[k].risk_score = Dec(4, 10)

\* C26: the risk score reported for a subject of high_risk_alerts is capped at
\* 1.0, like the risk score of _assess_bp_risk: no combination of risk
\* factors is reported with a score above 1.0.
C26_ReportedScoreCapped ==
    (Scanned /\ ~out.raised) =>
        \A k \in DOMAIN out.value : RLe(out.value[k].risk_score, R(1))

Detected == pc = "done" /\ call.op = "_detect_early_warning_signs" /\ ~out.raised
\* the measurement of the population and the dates of the visits
Measured == IF call.population_type = "adults" THEN "sistol" ELSE "HAZ"
VisitDay(i) == to_datetime(call.df[i]["date"])
InWindow(i) == \A j \in DOMAIN call.df : VisitDay(i) >= VisitDay(j) - RecentDays
RECURSIVE Total(_, _)
Total(visits, column) ==
    IF visits = {} THEN R(0)
    ELSE LET i == CHOOSE v \in visits : TRUE
         IN  RAdd(call.df[i][column], Total(visits \ {i}, column))
Average(visits, column) == RDiv(Total(visits, column), R(Cardinality(visits)))
\* recent mean - all-time mean
Rise(column) ==
    RSub(Average({i \in DOMAIN call.df : InWindow(i)}, column),
         Average(DOMAIN call.df, column))
Expected ==
    IF call.df = <<>> \/ "date" \notin Columns(call.df) \/ Measured \notin Columns(call.df)
    THEN <<>>
    ELSE IF call.population_type = "adults" /\ RLt(R(5), Rise("sistol"))
    THEN <<"increasing_blood_pressure">>
    ELSE IF call.population_type # "adults" /\ RLt(Rise("HAZ"), Dec(-2, 10))
    THEN <<"declining_growth">>
    ELSE <<>>

Advised == pc = "done" /\ call.op = "_generate_bp_recommendations"
\* every entry, in the order of insertion
Entries ==
    <<"Segera konsultasi medis diperlukan", "Pertimbangkan rawat inap jika bergejala",
      "Tingkatkan pengobatan antihipertensi", "Pantau tekanan darah setiap minggu",
      "Mulai pengobatan antihipertensi",
      "Konseling berhenti merokok - prioritas tinggi",
      "Optimalkan manajemen diabetes", "Target tekanan darah <130/80 mmHg",
      "Tingkatkan kepatuhan pengobatan melalui edukasi",
      "Aktivitas fisik teratur dan modifikasi pola makan">>
AtLeast(systolic) == RLe(R(systolic), call.prediction.systolic)
Applies(entry) ==
    CASE entry \in {Entries[1], Entries[2]} -> AtLeast(160)
      [] entry \in {Entries[3], Entries[4]} -> AtLeast(140) /\ ~AtLeast(160)
      [] entry = Entries[5] -> call.features.on_treatment = R(0) /\ AtLeast(140)
      [] entry = Entries[6] -> call.features.smoking # R(0)
      [] entry \in {Entries[7], Entries[8]} -> call.features.diabetes # R(0)
      [] entry = Entries[9] -> RLt(call.features.adherence, Dec(8, 10))
      [] entry = Entries[10] -> TRUE

\* C28: the adult recommendations are the entries that apply, in the fixed
\* order of insertion: the urgent consultation entries when the predicted
\* systolic is >= 160, otherwise the intensify-treatment entries when it is
\* >= 140; start-treatment when not on treatment and systolic >= 140; the
\* smoking entry; the diabetes entries; the adherence entry exactly when
\* adherence < 0.8; and the lifestyle entry, always, last.
C28_RecommendationsInInsertionOrder ==
    Advised =>
        /\ out.value = SelectSeq(Entries, Applies)
        /\ out.value # <<>>
        /\ out.value[Len(out.value)] = Entries[10]
\* an untreated smoker with diabetes and poor adherence, systolic >= 160
C28_Witness ==
    /\ Advised
    /\ out.value = <<Entries[1], Entries[2], Entries[5], Entries[6], Entries[7], Entries[8],
                     Entries[9], Entries[10]>>

\* a trend-based prediction for the day of the latest observation
ZeroHorizon == call.months_ahead = 0
LatestRow == iloc_last(sort_values(call.person_data))

\* C29 as stated: with months_ahead = 0 a trend-based prediction is the latest
\* observed value clamped to the plausible range, for adults and for children
C29_ZeroHorizonIsLatest ==
    /\ (TrendAdult /\ ZeroHorizon) =>
        \A row \in {LatestRow} :
            /\ out.value.predicted_bp.systolic = round(Clamp(R(90), row["sistol"], R(250)), 1)
            /\ out.value.predicted_bp.diastolic = round(Clamp(R(60), row["diastol"], R(130)), 1)
    /\ (TrendChild /\ ZeroHorizon) =>
        \A row \in {LatestRow} :
            out.value.predicted_status.haz = round(Clamp(R(-5), row["HAZ"], R(3)), 2)
\* C29: with months_ahead = 0 a trend-based child prediction is the latest HAZ
\* clamped to [-5, 3], and a trend-based adult prediction is the latest
\* reading plus the treatment effect T = -15 * adherence * min(1,
\* treatment_months/6) of a person on treatment (0.7 * T for diastolic),
\* clamped to [90, 250] and [60, 130]: the latest reading itself when the
\* person is not on treatment or has adherence 0.
C29_ZeroHorizonKeepsTreatmentEffect ==
    /\ (TrendAdult /\ ZeroHorizon) =>
        \A row \in {LatestRow} :
        \A t \in {TreatmentTerm(row)} :
            /\ out.value.predicted_bp.systolic =
                   round(Clamp(R(90), RAdd(row["sistol"], t), R(250)), 1)
            /\ out.value.predicted_bp.diastolic =
                   round(Clamp(R(60), RAdd(row["diastol"], RMul(Dec(7, 10), t)), R(130)), 1)
            /\ (~OnTreatment(row) \/ Get(row, "adherence_current", R(0)) = R(0))
                   => t = R(0)
    /\ (TrendChild /\ ZeroHorizon) =>
        \A row \in {LatestRow} :
            out.value.predicted_status.haz = round(Clamp(R(-5), row["HAZ"], R(3)), 2)
\* an adherent adult on treatment predicted for the day of the latest
\* observation, below the latest reading
C29_Witness ==
    /\ TrendAdult /\ ZeroHorizon
    /\ TreatmentTerm(LatestRow) # R(0)
    /\ RLt(out.value.predicted_bp.systolic, LatestRow["sistol"])
    /\ RLt(R(90), out.value.predicted_bp.systolic)

Recommends(entry) ==
    \E k \in DOMAIN out.value.recommendations : out.value.recommendations[k] = entry

\* C30: in every trend-based adult prediction a risk_level of 'high' or
\* 'very_high' comes with the urgent medical consultation entry among the
\* recommendations, and a risk_level of 'low' with neither the urgent nor the
\* intensify-treatment entry.
C30_RiskAndRecommendationsAgree ==
    TrendAdult =>
        /\ out.value.risk_assessment.risk_level \in {"high", "very_high"}
               => Recommends("Segera konsultasi medis diperlukan")
        /\ out.value.risk_assessment.risk_level = "low"
               => /\ ~Recommends("Segera konsultasi medis diperlukan")
                  /\ ~Recommends("Tingkatkan pengobatan antihipertensi")

====
